---------------------------- MODULE Spec2Model ----------------------------
(***************************************************************************)
(* guardskills: the resolution -> scan -> score -> gate pipeline.          *)
(*                                                                         *)
(* Scores are JavaScript numbers built from severityPoints x               *)
(* confidenceMultiplier (multipliers 1.0, 0.7, 0.4).  Every such product   *)
(* is a multiple of 0.1, so the model keeps every score as an integer      *)
(* number of tenths: 17.5 is 175, the threshold 29 is 290, 100 is 1000.    *)
(* The tenths are exact; the doubles of the code are not: with at most     *)
(* five findings every double sum decides the same level as the exact      *)
(* sum, but six findings can differ (5 x 4.8 + 5 is 29.000000000000004 in  *)
(* doubles, WARNING instead of SAFE), which lies outside MaxFindings.      *)
(* A value that can be null (riskScore, safetyScore, reason) is kept as a  *)
(* sequence: <<>> for null / absent, <<v>> for the value v.                *)
(***************************************************************************)
EXTENDS Integers, Sequences, FiniteSets, TLC

VARIABLES
    findings,       \* calculateRiskScore: the Finding[] argument being built
    scoreOptions,   \* calculateRiskScore: the ScoreOptions of the last call
    scoring,        \* calculateRiskScore: the ScoringResult of the last call
    levelStrict,    \* decideLevel: the strict setting of the probed table
    levelCalls,     \* decideLevel: the calls made, [riskScore, level]
    command,        \* the command being run: add, interactive, scan-local, scan-clawhub
    pc,             \* the command's position: idle, resolving, resolved, scanning,
                    \* installing, done
    options,        \* the command's effective options
    resolved,       \* the ResolvedSkill in hand (null before resolution)
    decision,       \* the ScoringResult reported for it (null before scoring)
    summaries,      \* interactive install: one entry per skill scanned so far:
                    \* its level and riskScore, and the reasons its resolution gave
    overall,        \* the level handed to the gate (null before the gate)
    gate,           \* the GateDecision (null before the gate)
    exitCode,       \* the number the command returned (null while running or thrown)
    error,          \* the GuardSkillsError code thrown (null if none)
    installerCalls, \* how many times the external installer was started
    call,           \* resolver: the network call under way (operation, retries,
                    \* attempt counter, invocations so far, last error, state)
    listing,        \* resolver: the entries the origin lists for the skill
    resolution,     \* resolver: what the resolution produced (null before)
    refInput,       \* extractReferencedPaths: skillDir, knownPaths and the
                    \* candidates the three patterns found in the skill file
    referenced,     \* extractReferencedPaths: the paths returned (null before)
    scanInput,      \* scanResolvedSkill: the skill, its files given by pieces
    scanResult,     \* scanResolvedSkill: the ScanResult (null before)
    policyRun,      \* an installing command up to the start of its resolution:
                    \* source, policy, flags, position, error, whether a
                    \* resolution or clone was started
    lookup,         \* resolveSkillFromClawHub: one call, its requests in order
    install         \* an installing command next to the remote repository it reads

scoreVars == <<findings, scoreOptions, scoring>>
levelVars == <<levelStrict, levelCalls>>
cmdVars == <<command, pc, options, resolved, decision, summaries, overall, gate,
             exitCode, error, installerCalls>>
refVars == <<refInput, referenced>>
scanVars == <<scanInput, scanResult>>
laterVars == <<lookup, install>>
extVars == <<refVars, scanVars, policyRun, laterVars>>
resolverVars == <<call, listing, resolution, extVars>>
vars == <<findings, scoreOptions, scoring, levelStrict, levelCalls,
          command, pc, options, resolved, decision, summaries, overall, gate,
          exitCode, error, installerCalls, call, listing, resolution,
          refInput, referenced, scanInput, scanResult, policyRun,
          lookup, install>>

-----------------------------------------------------------------------------
(* Generic helpers *)

Null == <<>>
Some(v) == <<v>>
IsNull(x) == x = <<>>
Val(x) == x[1]

Range(s) == {s[i] : i \in DOMAIN s}
Max(a, b) == IF a >= b THEN a ELSE b
Min(a, b) == IF a <= b THEN a ELSE b

-----------------------------------------------------------------------------
(* Types: src/src/types/finding.ts, scoring types *)

Severity == {"CRITICAL", "HIGH", "MEDIUM", "LOW", "INFO"}
Confidence == {"high", "medium", "low"}
FindingType ==
    {"CREDENTIAL_EXFIL", "DESTRUCTIVE_OP", "REMOTE_CODE_EXEC", "PRIV_ESCALATION",
     "SECRET_READ", "NETWORK_POST", "DECODE_EXEC", "ENV_ACCESS", "FILE_STAGE",
     "OTHER"}
DecisionLevel == {"SAFE", "WARNING", "UNSAFE", "CRITICAL", "UNVERIFIABLE"}

\* One tenth is the unit of every score: 1.0 is Scale tenths.
Scale == 10

-----------------------------------------------------------------------------
(* Scoring engine *)

SEVERITY_POINTS ==
    [CRITICAL |-> 50, HIGH |-> 25, MEDIUM |-> 12, LOW |-> 5, INFO |-> 0]

\* Mutant: the confidence of a finding is ignored
CONFIDENCE_MULTIPLIER_ignored == [high |-> 10, medium |-> 10, low |-> 10]

\* 1.0, 0.7 and 0.4, in tenths
CONFIDENCE_MULTIPLIER == [high |-> 10, medium |-> 7, low |-> 4]

\* Mutant: REMOTE_CODE_EXEC left out of the hard-block set
HARD_BLOCK_TYPES_noRemoteCodeExec ==
    {"CREDENTIAL_EXFIL", "DESTRUCTIVE_OP", "PRIV_ESCALATION"}

HARD_BLOCK_TYPES ==
    {"CREDENTIAL_EXFIL", "DESTRUCTIVE_OP", "REMOTE_CODE_EXEC", "PRIV_ESCALATION"}

ATTACK_CHAINS ==
    << [id |-> "CHAIN_SECRET_EXFIL",
        description |-> "Secret read combined with network post",
        pattern |-> <<"SECRET_READ", "NETWORK_POST">>,
        bonus |-> 25],
       [id |-> "CHAIN_DECODE_EXEC",
        description |-> "Decode/deobfuscation followed by execution",
        pattern |-> <<"DECODE_EXEC", "REMOTE_CODE_EXEC">>,
        bonus |-> 30],
       [id |-> "CHAIN_ENV_STAGE_EXFIL",
        description |-> "Env access + staging + network post",
        pattern |-> <<"ENV_ACCESS", "FILE_STAGE", "NETWORK_POST">>,
        bonus |-> 20] >>

\* Mutant: the lower bound of the clamp dropped
clampRisk_noFloor(score) == Min(100 * Scale, score)

clampRisk(score) == Max(0, Min(100 * Scale, score))

chainMatchOf(chain) ==
    [id |-> chain.id, description |-> chain.description, bonus |-> chain.bonus]

\* Mutant: a chain matches as soon as one of its types occurs
matchedChains_anyType(fs) ==
    SelectSeq(ATTACK_CHAINS,
              LAMBDA chain :
                  \E k \in DOMAIN chain.pattern :
                      \E i \in DOMAIN fs : fs[i].type = chain.pattern[k])

matchedChains(fs) ==
    SelectSeq(ATTACK_CHAINS,
              LAMBDA chain :
                  \A k \in DOMAIN chain.pattern :
                      \E i \in DOMAIN fs : fs[i].type = chain.pattern[k])

detectChains(fs) ==
    LET m == matchedChains(fs)
    IN  [i \in DOMAIN m |-> chainMatchOf(m[i])]

\* Mutant: the standard WARNING threshold compared with < instead of <=
decideLevel_exclusive(riskScore, strict) ==
    IF ~strict
    THEN IF riskScore <= 29 * Scale THEN "SAFE"
         ELSE IF riskScore < 59 * Scale THEN "WARNING"
         ELSE IF riskScore <= 79 * Scale THEN "UNSAFE"
         ELSE "CRITICAL"
    ELSE IF riskScore <= 19 * Scale THEN "SAFE"
         ELSE IF riskScore <= 39 * Scale THEN "WARNING"
         ELSE IF riskScore <= 59 * Scale THEN "UNSAFE"
         ELSE "CRITICAL"

\* Mutant: the strict table's WARNING and UNSAFE rows exchanged
decideLevel_swapped(riskScore, strict) ==
    IF ~strict
    THEN IF riskScore <= 29 * Scale THEN "SAFE"
         ELSE IF riskScore <= 59 * Scale THEN "WARNING"
         ELSE IF riskScore <= 79 * Scale THEN "UNSAFE"
         ELSE "CRITICAL"
    ELSE IF riskScore <= 19 * Scale THEN "SAFE"
         ELSE IF riskScore <= 39 * Scale THEN "UNSAFE"
         ELSE IF riskScore <= 59 * Scale THEN "WARNING"
         ELSE "CRITICAL"

decideLevel(riskScore, strict) ==
    IF ~strict
    THEN IF riskScore <= 29 * Scale THEN "SAFE"
         ELSE IF riskScore <= 59 * Scale THEN "WARNING"
         ELSE IF riskScore <= 79 * Scale THEN "UNSAFE"
         ELSE "CRITICAL"
    ELSE IF riskScore <= 19 * Scale THEN "SAFE"
         ELSE IF riskScore <= 39 * Scale THEN "WARNING"
         ELSE IF riskScore <= 59 * Scale THEN "UNSAFE"
         ELSE "CRITICAL"

\* findings.reduce((sum, f) => sum + points * multiplier, 0), in tenths
RECURSIVE findingsSubtotalOf(_)
findingsSubtotalOf(fs) ==
    IF fs = <<>> THEN 0
    ELSE findingsSubtotalOf(SubSeq(fs, 1, Len(fs) - 1))
         + SEVERITY_POINTS[fs[Len(fs)].severity]
           * CONFIDENCE_MULTIPLIER[fs[Len(fs)].confidence]

\* chainMatches.reduce((sum, chain) => sum + chain.bonus, 0), in tenths
RECURSIVE chainBonusOf(_)
chainBonusOf(cs) ==
    IF cs = <<>> THEN 0
    ELSE chainBonusOf(SubSeq(cs, 1, Len(cs) - 1)) + cs[Len(cs)].bonus * Scale

isHardBlock(fs) ==
    \E i \in DOMAIN fs :
        /\ fs[i].severity = "CRITICAL"
        /\ fs[i].confidence = "high"
        /\ fs[i].type \in HARD_BLOCK_TYPES

hasHighOrCritical(fs) ==
    \E i \in DOMAIN fs : fs[i].severity = "HIGH" \/ fs[i].severity = "CRITICAL"

\* Mutant: the requested credits are not floored at 0
trustCreditsOf_noFloor(fs, opts) ==
    LET requestedTrust == opts.trustCredits * Scale
    IN  IF hasHighOrCritical(fs) THEN 0 ELSE Min(requestedTrust, 20 * Scale)

\* Mutant: the credits are granted when a HIGH or CRITICAL finding is present
trustCreditsOf_onlyWithHigh(fs, opts) ==
    LET requestedTrust == Max(0, opts.trustCredits * Scale)
    IN  IF hasHighOrCritical(fs) THEN Min(requestedTrust, 20 * Scale) ELSE 0

\* options.trustCredits is in whole points; the result's trustCredits in tenths
trustCreditsOf(fs, opts) ==
    LET requestedTrust == Max(0, opts.trustCredits * Scale)
    IN  IF hasHighOrCritical(fs) THEN 0 ELSE Min(requestedTrust, 20 * Scale)

unverifiableResult(fs) ==
    [riskScore |-> Null,
     safetyScore |-> Null,
     level |-> "UNVERIFIABLE",
     findings |-> fs,
     chainMatches |-> <<>>,
     breakdown |-> [findingsSubtotal |-> 0, chainBonus |-> 0, trustCredits |-> 0],
     reason |-> Some("Critical content could not be analyzed safely.")]

hardBlockResult(fs) ==
    [riskScore |-> Some(100 * Scale),
     safetyScore |-> Some(0),
     level |-> "CRITICAL",
     findings |-> fs,
     chainMatches |-> <<>>,
     breakdown |-> [findingsSubtotal |-> 100 * Scale, chainBonus |-> 0,
                    trustCredits |-> 0],
     reason |-> Some("Hard-block rule triggered by high-confidence critical behavior.")]

scoredResult(fs, opts) ==
    LET findingsSubtotal == findingsSubtotalOf(fs)
        chainMatches == detectChains(fs)
        chainBonus == chainBonusOf(chainMatches)
        trustCredits == trustCreditsOf(fs, opts)
        riskScore == clampRisk(findingsSubtotal + chainBonus - trustCredits)
    IN  [riskScore |-> Some(riskScore),
         safetyScore |-> Some(100 * Scale - riskScore),
         level |-> decideLevel(riskScore, opts.strict),
         findings |-> fs,
         chainMatches |-> chainMatches,
         breakdown |-> [findingsSubtotal |-> findingsSubtotal,
                        chainBonus |-> chainBonus,
                        trustCredits |-> trustCredits],
         reason |-> Null]

\* Mutant: the hard-block check placed before the unverifiable short-circuit
calculateRiskScore_hardBlockFirst(fs, opts) ==
    IF isHardBlock(fs) THEN hardBlockResult(fs)
    ELSE IF opts.hasUnverifiableContent THEN unverifiableResult(fs)
    ELSE scoredResult(fs, opts)

calculateRiskScore(fs, opts) ==
    IF opts.hasUnverifiableContent THEN unverifiableResult(fs)
    ELSE IF isHardBlock(fs) THEN hardBlockResult(fs)
    ELSE scoredResult(fs, opts)

\* Before any call of the engine
NoOptions == [strict |-> FALSE, trustCredits |-> 0, hasUnverifiableContent |-> FALSE]

ScoreIdle ==
    /\ findings = <<>>
    /\ scoreOptions = NoOptions
    /\ scoring = Null

LevelIdle ==
    /\ levelStrict = FALSE
    /\ levelCalls = <<>>

-----------------------------------------------------------------------------
(* Resolver: network calls, their errors and the retry loop                *)
(* src/src/resolver/github.ts and the registry resolver                    *)

\* --github-retries is validated to 0..6
MaxRetries == 6

RETRYABLE_STATUS == {429, 500, 502, 503, 504}

\* HTTP status codes a failed request can carry: one per branch of the error
\* mappers, and 400 and 408 for the statuses they do not name
StatusSample == {400, 401, 403, 404, 408, 429, 500, 502, 503, 504}

\* What lowerMessage.includes(...) is asked about.  An error's message is
\* kept as the set of these fragments that its lower-cased text contains.
MessageFragments == {"timeout", "timed out", "abort"}

\* The errors a request can reject with: an optional status and a message
RawErrors ==
    [status : {Null} \cup {Some(st) : st \in StatusSample},
     fragments : SUBSET MessageFragments]

\* mapGitHubError applied to what an octokit request rejects with (never a
\* GuardSkillsError): the GuardSkillsError built, as code, retryable, status
mapGitHubError(err) ==
    IF err.status \in {Some(401), Some(403)}
    THEN [code |-> "GITHUB_AUTH", retryable |-> FALSE, status |-> err.status]
    ELSE IF err.status = Some(404)
    THEN [code |-> "GITHUB_NOT_FOUND", retryable |-> FALSE, status |-> err.status]
    ELSE IF err.status # Null /\ Val(err.status) \in RETRYABLE_STATUS
    THEN [code |-> IF Val(err.status) = 429 THEN "GITHUB_RATE_LIMIT"
                   ELSE "GITHUB_TRANSIENT",
          retryable |-> TRUE, status |-> err.status]
    ELSE IF "timeout" \in err.fragments \/ "timed out" \in err.fragments
    THEN [code |-> "GITHUB_TIMEOUT", retryable |-> TRUE, status |-> Null]
    ELSE [code |-> "GITHUB_UNKNOWN", retryable |-> FALSE, status |-> err.status]

\* mapClawHubError applied to what fetch rejects with or to the
\* {status, message} thrown for a response that is not ok
mapClawHubError(err) ==
    IF err.status \in {Some(401), Some(403)}
    THEN [code |-> "CLAWHUB_AUTH", retryable |-> FALSE, status |-> err.status]
    ELSE IF err.status = Some(404)
    THEN [code |-> "CLAWHUB_NOT_FOUND", retryable |-> FALSE, status |-> err.status]
    ELSE IF err.status # Null /\ Val(err.status) \in RETRYABLE_STATUS
    THEN [code |-> IF Val(err.status) = 429 THEN "CLAWHUB_RATE_LIMIT"
                   ELSE "CLAWHUB_TRANSIENT",
          retryable |-> TRUE, status |-> err.status]
    ELSE IF \/ "timeout" \in err.fragments
            \/ "timed out" \in err.fragments
            \/ "abort" \in err.fragments
    THEN [code |-> "CLAWHUB_TIMEOUT", retryable |-> TRUE, status |-> Null]
    ELSE [code |-> "CLAWHUB_UNKNOWN", retryable |-> FALSE, status |-> err.status]

\* The calls resolveSkillFromGitHub makes through withRetry
GitHubOperations ==
    {"Repository metadata fetch", "Default branch fetch", "Repository tree fetch",
     "Blob fetch"}

\* The calls the registry resolver makes: fetchJson, fetchText, fetchArrayBuffer
ClawHubOperations ==
    {"ClawHub metadata fetch", "ClawHub page fetch", "ClawHub archive fetch"}

\* A call that has just been entered: nothing invoked yet
StartedCall(origin, operation, retries) ==
    [origin |-> origin, operation |-> operation, retries |-> retries,
     attempt |-> 0, invocations |-> 0, state |-> "running",
     raw |-> Null, mapped |-> Null]

NoCall == [StartedCall("none", "none", 0) EXCEPT !.state = "idle"]

\* What one invocation of the wrapped request does: resolve, or reject
Outcomes ==
    {[ok |-> TRUE, error |-> [status |-> Null, fragments |-> {}]]}
    \cup {[ok |-> FALSE, error |-> e] : e \in RawErrors}

\* Mutant: one attempt more than `retries` allows
withRetryStep_offByOne(c, outcome) ==
    IF outcome.ok
    THEN [c EXCEPT !.invocations = @ + 1, !.state = "returned"]
    ELSE LET mapped == mapGitHubError(outcome.error)
         IN  IF ~mapped.retryable \/ c.attempt > c.retries
             THEN [c EXCEPT !.invocations = @ + 1, !.state = "thrown",
                            !.raw = Some(outcome.error), !.mapped = Some(mapped)]
             ELSE [c EXCEPT !.invocations = @ + 1, !.attempt = @ + 1,
                            !.raw = Some(outcome.error), !.mapped = Some(mapped)]

\* One turn of the while loop of withRetry: fn() is invoked; its value is
\* returned, or its error is mapped and either thrown or, after the delay,
\* followed by the next turn
withRetryStep(c, outcome) ==
    IF outcome.ok
    THEN [c EXCEPT !.invocations = @ + 1, !.state = "returned"]
    ELSE LET mapped == mapGitHubError(outcome.error)
         IN  IF ~mapped.retryable \/ c.attempt >= c.retries
             THEN [c EXCEPT !.invocations = @ + 1, !.state = "thrown",
                            !.raw = Some(outcome.error), !.mapped = Some(mapped)]
             ELSE [c EXCEPT !.invocations = @ + 1, !.attempt = @ + 1,
                            !.raw = Some(outcome.error), !.mapped = Some(mapped)]

\* fetchJson / fetchText / fetchArrayBuffer: one request; a failure is mapped
\* and thrown to the caller
fetchStep(c, outcome) ==
    IF outcome.ok
    THEN [c EXCEPT !.invocations = @ + 1, !.state = "returned"]
    ELSE [c EXCEPT !.invocations = @ + 1, !.state = "thrown",
                   !.raw = Some(outcome.error),
                   !.mapped = Some(mapClawHubError(outcome.error))]

\* The files of a skill, as a resolver meets them.  A path is kept as its
\* directory inside the skill, its base name and its extension, so that the
\* type tests below read the extension as path.extname does.
MaxEntries == 3

ALLOWED_TEXT_EXTENSIONS ==
    {".md", ".txt", ".sh", ".bash", ".zsh", ".ps1", ".py", ".js", ".ts",
     ".mjs", ".cjs", ".json", ".yaml", ".yml", ".toml", ".ini", ".cfg"}

SkillMd == [dir |-> "", base |-> "SKILL", ext |-> ".md"]
NoPath == [dir |-> "", base |-> "", ext |-> ""]

PathSample ==
    { SkillMd,
      [dir |-> "", base |-> "README", ext |-> ".md"],
      [dir |-> "scripts", base |-> "run", ext |-> ".sh"],
      [dir |-> "src", base |-> "index", ext |-> ".js"],
      [dir |-> "scripts", base |-> "logo", ext |-> ".png"] }

\* What is wrong with one file: nothing, larger than the size limit, larger
\* than the limit in a tree entry that reports no size, a NUL byte in its
\* content, or content that cannot be obtained
FileProblems == {"none", "oversize", "unsizedOversize", "binary", "unreadable"}

\* The content is longer than the size limit
isOversize(e) == e.problem \in {"oversize", "unsizedOversize"}

\* One file: its path, its problem, and whether SKILL.md refers to it
Entries == [path : PathSample, problem : FileProblems, referenced : BOOLEAN]

\* The listings: up to MaxEntries files with distinct paths, in the order the
\* tree, the directory or the archive yields them
Listings ==
    { s \in UNION { [1..n -> Entries] : n \in 1..MaxEntries } :
        \A i, j \in DOMAIN s : i # j => s[i].path # s[j].path }

isSkillFile(filePath) == filePath.base = "SKILL" /\ filePath.ext = ".md"

\* scan-local.ts and the interactive command: SKILL.md or an allowed extension
isScannableTextFile(filePath) ==
    isSkillFile(filePath) \/ filePath.ext \in ALLOWED_TEXT_EXTENSIONS

\* github.ts: without an extension only files under scripts/ and SKILL.md
isLikelyTextFile(filePath) ==
    IF filePath.ext = ""
    THEN filePath.dir = "scripts" \/ isSkillFile(filePath)
    ELSE filePath.ext \in ALLOWED_TEXT_EXTENSIONS

\* add.ts (archive): skill.md or an allowed extension
isLikelyArchiveTextFile(filePath) ==
    isSkillFile(filePath) \/ filePath.ext \in ALLOWED_TEXT_EXTENSIONS

Reason(kind, filePath) == [kind |-> kind, path |-> filePath]

\* The result of one resolution; skillFilePath is <<>> until one is chosen
Resolution(origin, state, code, skillFilePath, files, reasons) ==
    [origin |-> origin, state |-> state, code |-> code,
     skillFilePath |-> skillFilePath, files |-> files,
     unverifiableReasons |-> reasons]

\* files and unverifiableReasons while a resolver walks the listing
NoFiles == [files |-> <<>>, reasons |-> <<>>, skillFilePath |-> Null, failed |-> FALSE]

\* collectLocalFiles from entry i on: a file of another type is passed over,
\* the file limit ends the walk, a file that cannot be read or is oversized
\* leaves a reason, any other file is read as text
RECURSIVE collectLocalFilesFrom(_, _, _, _)
collectLocalFilesFrom(entries, i, acc, maxTotalFiles) ==
    IF i > Len(entries) THEN acc
    ELSE LET e == entries[i] IN
         IF ~isScannableTextFile(e.path)
         THEN collectLocalFilesFrom(entries, i + 1, acc, maxTotalFiles)
         ELSE IF Len(acc.files) >= maxTotalFiles
         THEN [acc EXCEPT !.reasons = Append(@, Reason("truncated", NoPath))]
         ELSE IF e.problem = "unreadable"
         THEN collectLocalFilesFrom(entries, i + 1,
                  [acc EXCEPT !.reasons = Append(@, Reason("unreadable", e.path))],
                  maxTotalFiles)
         ELSE IF isOversize(e)
         THEN collectLocalFilesFrom(entries, i + 1,
                  [acc EXCEPT !.reasons = Append(@, Reason("oversize", e.path))],
                  maxTotalFiles)
         ELSE collectLocalFilesFrom(entries, i + 1,
                  [acc EXCEPT !.files = Append(@, e.path)], maxTotalFiles)

collectLocalFiles(entries, maxTotalFiles) ==
    collectLocalFilesFrom(entries, 1, NoFiles, maxTotalFiles)

\* resolveSkillDirectory / findSkillDirs: the directory holds a SKILL.md
HasSkillMd(entries) == \E i \in DOMAIN entries : entries[i].path = SkillMd

\* runScanLocalCommand up to the scanner: no SKILL.md or no collected file
\* is an INVALID_LOCAL_PATH error; skillFilePath is always "SKILL.md"
scanLocalResolve(entries, maxTotalFiles) ==
    LET c == collectLocalFiles(entries, maxTotalFiles) IN
    IF ~HasSkillMd(entries) \/ c.files = <<>>
    THEN Resolution("local", "thrown", "INVALID_LOCAL_PATH", Null, <<>>, <<>>)
    ELSE Resolution("local", "resolved", "", Some(SkillMd), c.files, c.reasons)

\* One skill directory of the interactive command: what collectLocalFiles
\* returns is handed on as it is
interactiveResolve(entries, maxTotalFiles) ==
    LET c == collectLocalFiles(entries, maxTotalFiles) IN
    IF ~HasSkillMd(entries)
    THEN Resolution("interactive", "thrown", "SKILL_NOT_FOUND", Null, <<>>, <<>>)
    ELSE Resolution("interactive", "resolved", "", Some(SkillMd), c.files, c.reasons)

\* fetchTextFile: "ok" when the content is returned, else the reason pushed.
\* The size tested is the one the tree reports, 0 when it reports none.
\* The blob request itself is a network call (withRetry above); a blob that
\* cannot be decoded is the one with an encoding other than base64.
fetchTextFile(e) ==
    IF e.problem = "oversize" THEN "oversize"
    ELSE IF ~isLikelyTextFile(e.path) THEN "unsupported"
    ELSE IF e.problem = "unreadable" THEN "unreadable"
    ELSE IF e.problem = "binary" THEN "binary"
    ELSE "ok"

\* [...new Set(xs)]: first occurrences, in order
RECURSIVE Dedupe(_)
Dedupe(xs) ==
    IF xs = <<>> THEN <<>>
    ELSE LET front == Dedupe(SubSeq(xs, 1, Len(xs) - 1))
             last == xs[Len(xs)]
         IN  IF \E k \in DOMAIN front : front[k] = last
             THEN front ELSE Append(front, last)

\* The fetch loop of resolveSkillFromGitHub over the bounded list
RECURSIVE fetchAll(_, _, _)
fetchAll(toFetch, i, acc) ==
    IF i > Len(toFetch) THEN acc
    ELSE LET e == toFetch[i]
             r == fetchTextFile(e)
         IN  IF r = "ok"
             THEN fetchAll(toFetch, i + 1, [acc EXCEPT !.files = Append(@, e.path)])
             ELSE fetchAll(toFetch, i + 1,
                      [acc EXCEPT !.reasons = Append(@, Reason(r, e.path))])

\* The candidate list of resolveSkillFromGitHub: the skill file, the
\* referenced files and the text files under scripts/ and src/ (the first
\* maxAuxFiles of them), deduplicated
githubFilesToFetch(entries, maxAuxFiles) ==
    LET IsSkill(e) == e.path = SkillMd
        IsReferenced(e) == e.referenced
        IsAux(e) == e.path.dir \in {"scripts", "src"} /\ isLikelyTextFile(e.path)
        aux == SelectSeq(entries, IsAux)
        auxFiles == SubSeq(aux, 1, Min(Len(aux), maxAuxFiles))
    IN  Dedupe(SelectSeq(entries, IsSkill) \o SelectSeq(entries, IsReferenced)
               \o auxFiles)

\* resolveSkillFromGitHub after the tree is fetched: pickSkillFile, the skill
\* file read first, then the candidate list cut at maxTotalFiles
githubResolve(entries, maxTotalFiles, maxAuxFiles) ==
    IF ~HasSkillMd(entries)
    THEN Resolution("github", "thrown", "SKILL_NOT_FOUND", Null, <<>>, <<>>)
    ELSE
    LET filesToFetch == githubFilesToFetch(entries, maxAuxFiles)
        bounded == SubSeq(filesToFetch, 1, Min(Len(filesToFetch), maxTotalFiles))
        start == IF Len(filesToFetch) > maxTotalFiles
                 THEN [NoFiles EXCEPT !.reasons = <<Reason("truncated", NoPath)>>]
                 ELSE NoFiles
        c == fetchAll(bounded, 1, start)
    IN  IF fetchTextFile(filesToFetch[1]) # "ok" \/ c.files = <<>>
        THEN Resolution("github", "thrown", "GITHUB_UNKNOWN", Null, <<>>, <<>>)
        ELSE Resolution("github", "resolved", "", Some(SkillMd), c.files, c.reasons)

\* The entry loop of resolveSkillFromArchive: a file of another type is passed
\* over, the file limit ends the loop, an entry that cannot be decompressed
\* rejects the whole call, an oversized or binary entry leaves a reason
RECURSIVE archiveEntriesFrom(_, _, _, _)
archiveEntriesFrom(entries, i, acc, maxTotalFiles) ==
    IF i > Len(entries) THEN acc
    ELSE LET e == entries[i] IN
         IF ~isLikelyArchiveTextFile(e.path)
         THEN archiveEntriesFrom(entries, i + 1, acc, maxTotalFiles)
         ELSE IF Len(acc.files) >= maxTotalFiles
         THEN [acc EXCEPT !.reasons = Append(@, Reason("truncated", NoPath))]
         ELSE IF e.problem = "unreadable"
         THEN [acc EXCEPT !.failed = TRUE]
         ELSE IF isOversize(e)
         THEN archiveEntriesFrom(entries, i + 1,
                  [acc EXCEPT !.reasons = Append(@, Reason("oversize", e.path))],
                  maxTotalFiles)
         ELSE IF e.problem = "binary"
         THEN archiveEntriesFrom(entries, i + 1,
                  [acc EXCEPT !.reasons = Append(@, Reason("binary", e.path))],
                  maxTotalFiles)
         ELSE archiveEntriesFrom(entries, i + 1,
                  [acc EXCEPT !.files = Append(@, e.path),
                              !.skillFilePath =
                                  IF @ = Null /\ isSkillFile(e.path)
                                  THEN Some(e.path) ELSE @],
                  maxTotalFiles)

\* resolveSkillFromArchive: null ("none") without a skill file among the
\* files; the rejection of entry.async is the library's own error, not a
\* GuardSkillsError
archiveResolve(entries, maxTotalFiles) ==
    LET c == archiveEntriesFrom(entries, 1, NoFiles, maxTotalFiles) IN
    IF c.failed
    THEN Resolution("archive", "thrown", "JSZIP_ERROR", Null, <<>>, <<>>)
    ELSE IF c.skillFilePath = Null \/ c.files = <<>>
    THEN Resolution("archive", "none", "", Null, <<>>, <<>>)
    ELSE Resolution("archive", "resolved", "", c.skillFilePath, c.files, c.reasons)

NoListing == [entries |-> <<>>, maxTotalFiles |-> 0, maxAuxFiles |-> 0]

\* extractReferencedPaths.  A path is the sequence of its segments; the
\* repository tree (knownPaths) and the skill directories are samples.
MaxRefs == 2

KnownPaths ==
    { <<"skills", "a", "SKILL.md">>,
      <<"skills", "a", "scripts", "run.sh">>,
      <<"skills", "other-skill", "run.sh">>,
      <<"README.md">> }

SkillDirs == { <<"skills", "a">>, <<"skills", "other-skill">> }

\* What a pattern captured: a relative path, a path starting with "/", an
\* http(s):// or other scheme:// URL, or a "#" anchor
CandidateKinds == {"relative", "absolute", "url", "anchor"}

SegmentsSample ==
    { <<"scripts", "run.sh">>,
      <<".", "scripts", "run.sh">>,
      <<"missing.md">>,
      <<"..", "other-skill", "run.sh">>,
      <<"..", "..", "README.md">>,
      <<"..", "..", "..", "etc", "passwd">> }

Candidates ==
    [kind : {"relative"}, segments : SegmentsSample]
    \cup [kind : CandidateKinds \ {"relative"}, segments : {<<"scripts", "run.sh">>}]

\* path.posix.normalize of a relative path: "." is dropped, ".." removes the
\* segment before it, or stays when there is none to remove
RECURSIVE normalizeFrom(_, _, _)
normalizeFrom(segments, i, acc) ==
    IF i > Len(segments) THEN acc
    ELSE IF segments[i] = "." THEN normalizeFrom(segments, i + 1, acc)
    ELSE IF segments[i] = ".." /\ acc # <<>> /\ acc[Len(acc)] # ".."
    THEN normalizeFrom(segments, i + 1, SubSeq(acc, 1, Len(acc) - 1))
    ELSE normalizeFrom(segments, i + 1, Append(acc, segments[i]))

normalize(segments) == normalizeFrom(segments, 1, <<>>)

\* normalized.startsWith("../")
startsWithDotDot(segments) == Len(segments) >= 2 /\ segments[1] = ".."

\* maybeAdd: the path added to the collected set for one candidate, if any
maybeAdd(candidate, skillDir, knownPaths) ==
    IF candidate.kind # "relative" THEN {}
    ELSE LET normalized == normalize(skillDir \o candidate.segments) IN
         IF startsWithDotDot(normalized) THEN {}
         ELSE IF normalized \in knownPaths THEN {normalized}
         ELSE {}

\* extractReferencedPaths: the set collected over all candidates
extractReferencedPaths(candidates, skillDir, knownPaths) ==
    UNION { maybeAdd(candidates[i], skillDir, knownPaths) : i \in DOMAIN candidates }

NoRefInput == [skillDir |-> <<>>, knownPaths |-> {}, candidates |-> <<>>]

RefIdle ==
    /\ refInput = NoRefInput
    /\ referenced = Null

\* Policy: enforceSourcePolicy and enforceOptionPolicy at the start of the
\* installing commands.  A source is kept as the way it is written and the
\* owner it names; the repository lists of a policy are handled like its
\* owner lists and are left out.
Owners == {"acme", "evil"}

\* "evil/skills"; "https://github.com/evil/skills";
\* "git@github.com:evil/skills.git"; "https://gitlab.com/evil/skills"
SourceForms == {"shorthand", "githubUrl", "sshUrl", "otherHost"}

Sources == [form : SourceForms, owner : Owners]

\* allowForce and allowUnverifiableOverride: FALSE when the policy sets them
\* to false, TRUE when it sets them to true or leaves them out
Policies ==
    {Null} \cup
    {Some(p) : p \in [blockedOwners : SUBSET Owners, allowedOwners : SUBSET Owners,
                      allowForce : BOOLEAN, allowUnverifiableOverride : BOOLEAN]}

\* Where a flag was set: nowhere, on the command line, in config.defaults
FlagOrigins == {"unset", "cli", "defaults"}

\* cliOptions.x ?? defaults.x ?? DEFAULT_OPTIONS.x, for a flag set to true
\* where it is set
effectiveFlag(origin) == origin # "unset"

\* parseRepoReference: owner/repo shorthand or a github.com URL, else null
parseRepoReference(source) ==
    IF source.form \in {"shorthand", "githubUrl"} THEN Some(source.owner) ELSE Null

\* enforceSourcePolicy: the error thrown, or null
enforceSourcePolicy(source, policy) ==
    IF policy = Null THEN Null
    ELSE IF parseRepoReference(source) = Null THEN Null
    ELSE LET owner == Val(parseRepoReference(source))
             p == Val(policy)
         IN  IF owner \in p.blockedOwners THEN Some("POLICY_VIOLATION")
             ELSE IF p.allowedOwners # {} /\ owner \notin p.allowedOwners
             THEN Some("POLICY_VIOLATION")
             ELSE Null

\* enforceOptionPolicy: the error thrown, or null
enforceOptionPolicy(force, allowUnverifiable, policy) ==
    IF policy = Null THEN Null
    ELSE IF force /\ ~Val(policy).allowForce THEN Some("POLICY_VIOLATION")
    ELSE IF allowUnverifiable /\ ~Val(policy).allowUnverifiableOverride
    THEN Some("POLICY_VIOLATION")
    ELSE Null

\* A command from its start to the first step of its resolution
PolicyRun(cmd, source, policy, forceOrigin, allowUnverifiableOrigin) ==
    [command |-> cmd, source |-> source, policy |-> policy,
     forceOrigin |-> forceOrigin,
     allowUnverifiableOrigin |-> allowUnverifiableOrigin,
     pc |-> "start", error |-> Null, started |-> FALSE]

NoPolicyRun ==
    [PolicyRun("none", [form |-> "shorthand", owner |-> "acme"], Null, "unset", "unset")
        EXCEPT !.pc = "idle"]

PolicyIdle == policyRun = NoPolicyRun

NoScanInput == [files |-> <<>>, unverifiableReasons |-> <<>>]

ScanIdle ==
    /\ scanInput = NoScanInput
    /\ scanResult = Null

\* resolveSkillFromClawHub: the identifier candidates of the input
\* (extractIdentifierCandidates), at most this many
MaxIdentifierCandidates == 2

\* toApiCandidates: the URLs tried for one identifier candidate, in order
ApiUrls == <<"/api/v1/package/", "/api/package/", "/api/v1/skills/">>

\* What a request of the registry resolver can throw
LookupErrors ==
    {[status |-> Some(404), fragments |-> {}],
     [status |-> Some(503), fragments |-> {}],
     [status |-> Null, fragments |-> {"timeout"}]}

\* The metadata a lookup can return: the repositories collectGitHubRepos
\* finds in it, its skill field, whether parseArchiveMetadata finds an owner
\* and a slug
MetadataSample ==
    [repos : {<<>>, <<"o/r1">>, <<"o/r1", "o/r2">>},
     skill : {Null, Some("alt")},
     archivable : BOOLEAN]

\* collectPossibleSkillNames(identifier, metadata, override)
collectPossibleSkillNames(lastSegment, metadata, override) ==
    Dedupe(override \o lastSegment \o metadata.skill)

\* The inner loop's catch: a mapped error other than CLAWHUB_NOT_FOUND breaks
abandonsCandidate_never(mapped) == FALSE

abandonsCandidate(mapped) == mapped.code # "CLAWHUB_NOT_FOUND"

Lookup(n, lastSegment, pageUrl, override) ==
    [pc |-> "start", identifierCandidates |-> n, lastSegment |-> lastSegment,
     pageUrl |-> pageUrl, skillNameOverride |-> override,
     candidate |-> 0, url |-> 0, metadata |-> Null, lastError |-> Null,
     repos |-> <<>>, skillCandidates |-> <<>>, repo |-> 0, skillName |-> 0,
     requests |-> <<>>, result |-> Null, error |-> Null]

NoLookup == [Lookup(0, Null, FALSE, Null) EXCEPT !.pc = "idle"]

LookupIdle == lookup = NoLookup

\* The revisions the default branch of the remote repository goes through
MaxRevisions == 3

\* An installing command next to the remote it reads: the revision the branch
\* is at, the revision that was resolved or cloned and scanned, the arguments
\* handed to the installer and the revision the installer fetched
Install(cmd, canInstall, skip) ==
    [command |-> cmd, pc |-> "start", remoteHead |-> 1, scanned |-> Null,
     canInstall |-> canInstall, skip |-> skip,
     installerArgs |-> Null, installed |-> Null]

NoInstall == [Install("none", FALSE, FALSE) EXCEPT !.pc = "idle"]

InstallIdle == install = NoInstall

\* runSkillsInstall(repo, options.skill) and
\* runProviderInstall(provider, source, skillName): the source as typed and
\* the skill name
installerArgs(run) == [source |-> "owner/repo", skill |-> "skill"]

LaterIdle ==
    /\ LookupIdle
    /\ InstallIdle

ExtIdle ==
    /\ RefIdle
    /\ ScanIdle
    /\ PolicyIdle
    /\ LaterIdle

ResolverIdle ==
    /\ call = NoCall
    /\ listing = NoListing
    /\ resolution = Null
    /\ ExtIdle

-----------------------------------------------------------------------------
(* Scanner: src/src/scanner/scan.ts *)

\* The detector rules, in order.  A rule's matcher is a regular expression
\* over a file's scannable content; the model keeps, for every file, the set
\* of rule ids whose matcher accepts that content (field "matched").
RULES ==
    << [id |-> "R001_CREDENTIAL_EXFIL", severity |-> "CRITICAL", confidence |-> "high",
        type |-> "CREDENTIAL_EXFIL"],
       [id |-> "R002_RCE_PIPE", severity |-> "CRITICAL", confidence |-> "high",
        type |-> "REMOTE_CODE_EXEC"],
       [id |-> "R003_DESTRUCTIVE_FS", severity |-> "CRITICAL", confidence |-> "high",
        type |-> "DESTRUCTIVE_OP"],
       [id |-> "R004_PRIV_ESC", severity |-> "CRITICAL", confidence |-> "high",
        type |-> "PRIV_ESCALATION"],
       [id |-> "R005_SECRET_READ", severity |-> "HIGH", confidence |-> "medium",
        type |-> "SECRET_READ"],
       [id |-> "R006_NETWORK_POST", severity |-> "MEDIUM", confidence |-> "medium",
        type |-> "NETWORK_POST"],
       [id |-> "R007_DECODE_EXEC", severity |-> "HIGH", confidence |-> "medium",
        type |-> "DECODE_EXEC"],
       [id |-> "R008_ENV_ACCESS", severity |-> "LOW", confidence |-> "low",
        type |-> "ENV_ACCESS"],
       [id |-> "R009_FILE_STAGE", severity |-> "LOW", confidence |-> "low",
        type |-> "FILE_STAGE"],
       [id |-> "R010_DYNAMIC_EXEC", severity |-> "HIGH", confidence |-> "medium",
        type |-> "REMOTE_CODE_EXEC"],
       [id |-> "R011_IEX_DOWNLOAD", severity |-> "CRITICAL", confidence |-> "high",
        type |-> "REMOTE_CODE_EXEC"],
       [id |-> "R012_DOWNLOAD_THEN_EXEC", severity |-> "HIGH", confidence |-> "medium",
        type |-> "REMOTE_CODE_EXEC"],
       [id |-> "R013_ENCODED_EXFIL", severity |-> "HIGH", confidence |-> "medium",
        type |-> "NETWORK_POST"],
       [id |-> "R014_ARCHIVE_FETCH_EXEC", severity |-> "HIGH", confidence |-> "medium",
        type |-> "REMOTE_CODE_EXEC"],
       [id |-> "R015_CHMOD_THEN_EXEC", severity |-> "HIGH", confidence |-> "medium",
        type |-> "REMOTE_CODE_EXEC"],
       [id |-> "R016_SPLIT_TOKEN_RCE", severity |-> "CRITICAL", confidence |-> "high",
        type |-> "REMOTE_CODE_EXEC"] >>

\* Mutant: the finding's id leaves out the file
fileFindings_idWithoutPath(file) ==
    LET hit == SelectSeq(RULES, LAMBDA rule : rule.id \in file.matched)
    IN  [i \in DOMAIN hit |->
            [id |-> hit[i].id,
             severity |-> hit[i].severity,
             confidence |-> hit[i].confidence,
             type |-> hit[i].type,
             file |-> file.path]]

\* The findings of one file: one per matching rule, in rule order
fileFindings(file) ==
    LET hit == SelectSeq(RULES, LAMBDA rule : rule.id \in file.matched)
    IN  [i \in DOMAIN hit |->
            [id |-> hit[i].id \o ":" \o file.path,
             severity |-> hit[i].severity,
             confidence |-> hit[i].confidence,
             type |-> hit[i].type,
             file |-> file.path]]

RECURSIVE allFindings(_)
allFindings(files) ==
    IF files = <<>> THEN <<>>
    ELSE allFindings(SubSeq(files, 1, Len(files) - 1)) \o fileFindings(files[Len(files)])

\* Mutant: the unverifiable reasons are not turned into the flag
scanResolvedSkill_dropsFlag(skill) ==
    [findings |-> allFindings(skill.files),
     hasUnverifiableContent |-> FALSE,
     unverifiableReasons |-> skill.unverifiableReasons]

scanResolvedSkill(skill) ==
    [findings |-> allFindings(skill.files),
     hasUnverifiableContent |-> Len(skill.unverifiableReasons) > 0,
     unverifiableReasons |-> skill.unverifiableReasons]

\* The content of a file, for getScannableContent.  A file is a sequence of
\* pieces; a piece is one Markdown construct (or one line of a script) and
\* the text in it.  The text is one of a few phrases, each kept with the
\* rules whose matcher accepts it and with whether COMMAND_HINT_PATTERN
\* finds a command word in it.
MaxPieces == 2

Constructs == {"fence", "inlineCode", "promptLine", "listItem", "blockQuote", "paragraph"}

\* "Use curl to download the file."; "Never run sudo rm -rf / here.";
\* "process.env.API_KEY"
PhraseTable ==
    [ curl    |-> [rules |-> {}, hint |-> TRUE],
      sudoRm  |-> [rules |-> {"R003_DESTRUCTIVE_FS", "R004_PRIV_ESC"}, hint |-> TRUE],
      envRead |-> [rules |-> {"R005_SECRET_READ", "R008_ENV_ACCESS"}, hint |-> FALSE] ]

Phrases == DOMAIN PhraseTable

Pieces == [construct : Constructs, phrase : Phrases]

\* path.posix.extname(filePath).toLowerCase() === ".md", for FilePaths
IsMarkdownPath(filePath) == filePath \in {"SKILL.md", "references/guide.md"}

COMMAND_HINT_PATTERN(phrase) == PhraseTable[phrase].hint

\* extractMarkdownExecutableContent: the bodies of the fences, the inline code
\* spans with a command word, and the bodies of the lines that start with
\* "$", "PS>", ">" or "-" and hold a command word
extractMarkdownExecutableContent(pieces) ==
    LET IsFence(p) == p.construct = "fence"
        IsInline(p) == p.construct = "inlineCode" /\ COMMAND_HINT_PATTERN(p.phrase)
        IsCommandLine(p) ==
            /\ p.construct \in {"promptLine", "blockQuote", "listItem"}
            /\ COMMAND_HINT_PATTERN(p.phrase)
        chunks == SelectSeq(pieces, IsFence) \o SelectSeq(pieces, IsInline)
                  \o SelectSeq(pieces, IsCommandLine)
    IN  Dedupe([i \in DOMAIN chunks |-> chunks[i].phrase])

getScannableContent(file) ==
    IF IsMarkdownPath(file.path)
    THEN extractMarkdownExecutableContent(file.pieces)
    ELSE [i \in DOMAIN file.pieces |-> file.pieces[i].phrase]

\* rule.match(content), for a rule id
ruleMatches(ruleId, content) ==
    \E i \in DOMAIN content : ruleId \in PhraseTable[content[i]].rules

\* The file as the rule loop sees it: no rule is tried on empty content
scannedFile(file) ==
    LET content == getScannableContent(file) IN
    [path |-> file.path,
     matched |-> IF content = <<>> THEN {}
                 ELSE {RULES[k].id : k \in {j \in DOMAIN RULES :
                                               ruleMatches(RULES[j].id, content)}}]

\* scanResolvedSkill on a skill whose files are given by their pieces
scanSkillContent(skill) ==
    scanResolvedSkill([files |-> [i \in DOMAIN skill.files |-> scannedFile(skill.files[i])],
                       unverifiableReasons |-> skill.unverifiableReasons])

-----------------------------------------------------------------------------
(* Gate: src/src/commands/add.ts *)

\* Mutant: UNSAFE let through by --yes as well as by --force
evaluateGate_unsafeByYes(level, opts) ==
    IF level = "UNVERIFIABLE"
    THEN IF opts.allowUnverifiable
         THEN [exitCode |-> 0, canInstall |-> TRUE,
               gateNote |-> "UNVERIFIABLE accepted via --allow-unverifiable."]
         ELSE [exitCode |-> 20, canInstall |-> FALSE,
               gateNote |-> "Blocked: scan result is UNVERIFIABLE. Use --allow-unverifiable to override."]
    ELSE IF level = "CRITICAL"
    THEN [exitCode |-> 20, canInstall |-> FALSE, gateNote |-> "Blocked: CRITICAL risk."]
    ELSE IF level = "UNSAFE"
    THEN IF opts.force \/ opts.yes
         THEN [exitCode |-> 0, canInstall |-> TRUE,
               gateNote |-> "UNSAFE accepted via --force."]
         ELSE [exitCode |-> 20, canInstall |-> FALSE,
               gateNote |-> "Blocked: UNSAFE risk. Use --force to override."]
    ELSE IF level = "WARNING" /\ ~opts.yes
    THEN [exitCode |-> 10, canInstall |-> FALSE,
          gateNote |-> "WARNING requires confirmation. Re-run with --yes."]
    ELSE [exitCode |-> 0, canInstall |-> TRUE,
          gateNote |-> IF level = "WARNING" THEN "WARNING accepted via --yes."
                       ELSE "SAFE to proceed."]

evaluateGate(level, opts) ==
    IF level = "UNVERIFIABLE"
    THEN IF opts.allowUnverifiable
         THEN [exitCode |-> 0, canInstall |-> TRUE,
               gateNote |-> "UNVERIFIABLE accepted via --allow-unverifiable."]
         ELSE [exitCode |-> 20, canInstall |-> FALSE,
               gateNote |-> "Blocked: scan result is UNVERIFIABLE. Use --allow-unverifiable to override."]
    ELSE IF level = "CRITICAL"
    THEN [exitCode |-> 20, canInstall |-> FALSE, gateNote |-> "Blocked: CRITICAL risk."]
    ELSE IF level = "UNSAFE"
    THEN IF opts.force
         THEN [exitCode |-> 0, canInstall |-> TRUE,
               gateNote |-> "UNSAFE accepted via --force."]
         ELSE [exitCode |-> 20, canInstall |-> FALSE,
               gateNote |-> "Blocked: UNSAFE risk. Use --force to override."]
    ELSE IF level = "WARNING" /\ ~opts.yes
    THEN [exitCode |-> 10, canInstall |-> FALSE,
          gateNote |-> "WARNING requires confirmation. Re-run with --yes."]
    ELSE [exitCode |-> 0, canInstall |-> TRUE,
          gateNote |-> IF level = "WARNING" THEN "WARNING accepted via --yes."
                       ELSE "SAFE to proceed."]

\* Interactive install: the level handed to the gate for several skills
\* Mutant: CRITICAL examined before UNVERIFIABLE
aggregateLevel_criticalFirst(levels) ==
    IF "CRITICAL" \in Range(levels) THEN "CRITICAL"
    ELSE IF "UNVERIFIABLE" \in Range(levels) THEN "UNVERIFIABLE"
    ELSE IF "UNSAFE" \in Range(levels) THEN "UNSAFE"
    ELSE IF "WARNING" \in Range(levels) THEN "WARNING"
    ELSE "SAFE"

aggregateLevel(levels) ==
    IF "UNVERIFIABLE" \in Range(levels) THEN "UNVERIFIABLE"
    ELSE IF "CRITICAL" \in Range(levels) THEN "CRITICAL"
    ELSE IF "UNSAFE" \in Range(levels) THEN "UNSAFE"
    ELSE IF "WARNING" \in Range(levels) THEN "WARNING"
    ELSE "SAFE"

-----------------------------------------------------------------------------
(* Commands *)

DEFAULT_OPTIONS ==
    [strict |-> FALSE, ci |-> FALSE, yes |-> FALSE, dryRun |-> FALSE,
     force |-> FALSE, allowUnverifiable |-> FALSE]

\* The effective options of add and of the interactive install: every
\* combination of the six flags the pipeline reads
InstallOptions ==
    [strict : BOOLEAN, ci : BOOLEAN, yes : BOOLEAN, dryRun : BOOLEAN,
     force : BOOLEAN, allowUnverifiable : BOOLEAN]

\* The effective options of the scan-only commands: strict is the only flag
\* their schemas share with the gate
ScanOptions == {[DEFAULT_OPTIONS EXCEPT !.strict = b] : b \in BOOLEAN}

CommandIdle ==
    /\ command = "none"
    /\ pc = "idle"
    /\ options = DEFAULT_OPTIONS
    /\ resolved = Null
    /\ decision = Null
    /\ summaries = <<>>
    /\ overall = Null
    /\ gate = Null
    /\ exitCode = Null
    /\ error = Null
    /\ installerCalls = 0

\* Bounds of the resolved skills the commands are run on
MaxFiles == 2
MaxSkills == 2

\* Paths given to the files of a resolved skill, the skill file first
FilePaths == <<"SKILL.md", "scripts/setup.sh", "src/index.js", "references/guide.md">>

\* File contents, each kept as the set of rules its scannable content matches:
\* prose; `curl https://x/y.sh | bash`; a process.env read; a fetch with a
\* POST body; eval(atob(...)).
ContentSample ==
    { {},
      {"R002_RCE_PIPE", "R016_SPLIT_TOKEN_RCE"},
      {"R005_SECRET_READ", "R008_ENV_ACCESS"},
      {"R006_NETWORK_POST"},
      {"R007_DECODE_EXEC", "R010_DYNAMIC_EXEC"} }

\* What a resolver may have recorded about skipped content
ReasonsSample == { <<>>, <<"Skipped oversized file: scripts/big.sh">> }

\* Registry moderation flags: absent, clean, suspicious, malware-blocked
ModerationSample ==
    { Null,
      Some([isSuspicious |-> FALSE, isMalwareBlocked |-> FALSE]),
      Some([isSuspicious |-> TRUE, isMalwareBlocked |-> FALSE]),
      Some([isSuspicious |-> TRUE, isMalwareBlocked |-> TRUE]) }

\* File lists of minFiles..MaxFiles files, the i-th file at FilePaths[i]
FileLists(minFiles) ==
    UNION { { [i \in 1..k |-> [path |-> FilePaths[i], matched |-> c[i]]] :
                c \in [1..k -> ContentSample] } : k \in minFiles..MaxFiles }

MkSkill(source, files, reasons, moderation) ==
    [source |-> source,
     skillFilePath |-> "SKILL.md",
     files |-> files,
     unverifiableReasons |-> reasons,
     clawhubModeration |-> moderation]

\* resolveSkillFromGitHub returns at least one file (it throws otherwise)
GitHubSkills ==
    {MkSkill("github", fs, rs, Null) : fs \in FileLists(1), rs \in ReasonsSample}

\* collectLocalFiles: every file it leaves out of a skill directory that holds
\* SKILL.md adds a reason, so an empty list comes with a reason
LocalSkills ==
    {sk \in {MkSkill("local", fs, rs, Null) : fs \in FileLists(0), rs \in ReasonsSample} :
        sk.files = <<>> => sk.unverifiableReasons # <<>>}

\* runScanLocalCommand goes on only with at least one file
ScanLocalSkills == {sk \in LocalSkills : Len(sk.files) > 0}

ClawHubSkills ==
    {MkSkill("clawhub", fs, rs, m) :
        fs \in FileLists(1), rs \in ReasonsSample, m \in ModerationSample}

ResolverErrors ==
    {"INVALID_REPO_INPUT", "SKILL_NOT_FOUND", "GITHUB_AUTH", "GITHUB_NOT_FOUND",
     "GITHUB_RATE_LIMIT", "GITHUB_TIMEOUT", "GITHUB_TRANSIENT", "GITHUB_UNKNOWN"}

\* What the installer process may end with: success, its own failure code,
\* or no code at all (reported as 30)
InstallerExitSample == {0, 1, 30}

\* scan, then score: the decision every command computes for a resolved skill
decisionOf(skill, opts) ==
    LET scan == scanResolvedSkill(skill)
    IN  calculateRiskScore(scan.findings,
                           [strict |-> opts.strict,
                            trustCredits |-> 0,
                            hasUnverifiableContent |-> scan.hasUnverifiableContent])

\* Mutant: CI mode no longer skips the install
addHandoff_ignoresCi(g, opts) ==
    IF ~g.canInstall THEN "blocked"
    ELSE IF opts.dryRun THEN "skipped"
    ELSE "install"

\* runAddCommand after the report: return the gate's code, return 0, or install
addHandoff(g, opts) ==
    IF ~g.canInstall THEN "blocked"
    ELSE IF opts.dryRun \/ opts.ci THEN "skipped"
    ELSE "install"

\* runInteractiveInstallCommand after the report
interactiveHandoff(g, opts) ==
    IF ~g.canInstall THEN "blocked"
    ELSE IF opts.dryRun \/ opts.ci THEN "skipped"
    ELSE "install"

\* The command's state after the gate, for the handoff chosen
Handoff(level, g, choice) ==
    /\ overall' = Some(level)
    /\ gate' = Some(g)
    /\ CASE choice = "blocked" ->
               /\ exitCode' = Some(g.exitCode)
               /\ pc' = "done"
               /\ UNCHANGED installerCalls
         [] choice = "skipped" ->
               /\ exitCode' = Some(0)
               /\ pc' = "done"
               /\ UNCHANGED installerCalls
         [] choice = "install" ->
               /\ installerCalls' = installerCalls + 1
               /\ pc' = "installing"
               /\ UNCHANGED exitCode

\* A command throws: nothing is returned
Throw(code) ==
    /\ error' = Some(code)
    /\ pc' = "done"
    /\ UNCHANGED <<command, options, resolved, decision, summaries, overall, gate, exitCode,
                   installerCalls>>

(* guardskills add *)

StartAdd ==
    /\ pc = "idle"
    /\ command' = "add"
    /\ options' \in InstallOptions
    /\ pc' = "resolving"
    /\ UNCHANGED <<resolved, decision, summaries, overall, gate, exitCode, error,
                   installerCalls, scoreVars, levelVars, resolverVars>>

AddResolveFails ==
    /\ command = "add" /\ pc = "resolving"
    /\ \E code \in ResolverErrors : Throw(code)
    /\ UNCHANGED <<scoreVars, levelVars, resolverVars>>

AddResolve ==
    /\ command = "add" /\ pc = "resolving"
    /\ \E skill \in GitHubSkills : resolved' = Some(skill)
    /\ pc' = "resolved"
    /\ UNCHANGED <<command, options, decision, summaries, overall, gate, exitCode, error,
                   installerCalls, scoreVars, levelVars, resolverVars>>

\* scanResolvedSkill, calculateRiskScore, evaluateGate, the report, the handoff
AddScanAndGate ==
    /\ command = "add" /\ pc = "resolved"
    /\ LET d == decisionOf(Val(resolved), options)
           g == evaluateGate(d.level, options)
       IN  /\ decision' = Some(d)
           /\ Handoff(d.level, g, addHandoff(g, options))
    /\ UNCHANGED <<command, options, resolved, summaries, error, scoreVars, levelVars, resolverVars>>

(* guardskills <provider> install: the interactive install *)

StartInteractive ==
    /\ pc = "idle"
    /\ command' = "interactive"
    /\ options' \in InstallOptions
    /\ pc' = "resolving"
    /\ UNCHANGED <<resolved, decision, summaries, overall, gate, exitCode, error,
                   installerCalls, scoreVars, levelVars, resolverVars>>

\* git clone fails, or no SKILL.md is found, or the named skill is not there
InteractiveResolveFails ==
    /\ command = "interactive" /\ pc = "resolving"
    /\ \E code \in {"GITHUB_UNKNOWN", "SKILL_NOT_FOUND"} : Throw(code)
    /\ UNCHANGED <<scoreVars, levelVars, resolverVars>>

\* One turn of the loop over the selected skill directories
InteractiveScanSkill ==
    /\ command = "interactive" /\ pc \in {"resolving", "scanning"}
    /\ Len(summaries) < MaxSkills
    /\ \E skill \in LocalSkills :
          LET d == decisionOf(skill, options)
          IN  summaries' = Append(summaries,
                                  [level |-> d.level,
                                   riskScore |-> d.riskScore,
                                   unverifiableReasons |-> skill.unverifiableReasons])
    /\ pc' = "scanning"
    /\ UNCHANGED <<command, options, resolved, decision, overall, gate, exitCode, error,
                   installerCalls, scoreVars, levelVars, resolverVars>>

levelsOf(sums) == [i \in DOMAIN sums |-> sums[i].level]

\* After the loop: aggregateLevel, evaluateGate, the report, the handoff
InteractiveGate ==
    /\ command = "interactive" /\ pc = "scanning"
    /\ LET level == aggregateLevel(levelsOf(summaries))
           g == evaluateGate(level, options)
       IN  Handoff(level, g, interactiveHandoff(g, options))
    /\ UNCHANGED <<command, options, resolved, decision, summaries, error,
                   scoreVars, levelVars, resolverVars>>

\* runProviderInstall returns the installer's outcome
InstallerExit ==
    /\ pc = "installing"
    /\ \E code \in InstallerExitSample : exitCode' = Some(code)
    /\ pc' = "done"
    /\ UNCHANGED <<command, options, resolved, decision, summaries, overall, gate, error,
                   installerCalls, scoreVars, levelVars, resolverVars>>

(* guardskills scan-local and scan-clawhub *)

\* Mutant: UNVERIFIABLE reported with exit code 0
blockedExitCode_unverifiablePasses(level) ==
    IF level = "UNSAFE" \/ level = "CRITICAL" THEN 20 ELSE 0

\* The scan-only commands' return value
blockedExitCode(level) ==
    IF level = "UNSAFE" \/ level = "CRITICAL" \/ level = "UNVERIFIABLE" THEN 20 ELSE 0

\* Mutant: the suspicious flag is examined before the malware-blocked flag
alignWithClawHubModeration_suspiciousFirst(baseDecision, moderation) ==
    IF moderation = Null THEN baseDecision
    ELSE IF Val(moderation).isSuspicious /\ baseDecision.level = "SAFE"
    THEN [baseDecision EXCEPT
            !.riskScore = Some(30 * Scale),
            !.safetyScore = Some(70 * Scale),
            !.level = "WARNING",
            !.reason = Some("ClawHub moderation marked this skill as suspicious.")]
    ELSE IF Val(moderation).isMalwareBlocked
    THEN [baseDecision EXCEPT
            !.riskScore = Some(100 * Scale),
            !.safetyScore = Some(0),
            !.level = "CRITICAL",
            !.reason = Some("ClawHub moderation marked this skill as malware-blocked.")]
    ELSE baseDecision

alignWithClawHubModeration(baseDecision, moderation) ==
    IF moderation = Null THEN baseDecision
    ELSE IF Val(moderation).isMalwareBlocked
    THEN [baseDecision EXCEPT
            !.riskScore = Some(100 * Scale),
            !.safetyScore = Some(0),
            !.level = "CRITICAL",
            !.reason = Some("ClawHub moderation marked this skill as malware-blocked.")]
    ELSE IF Val(moderation).isSuspicious /\ baseDecision.level = "SAFE"
    THEN LET adjustedRisk ==
                 Max(IF IsNull(baseDecision.riskScore) THEN 0
                     ELSE Val(baseDecision.riskScore), 30 * Scale)
         IN  [baseDecision EXCEPT
                !.riskScore = Some(adjustedRisk),
                !.safetyScore = Some(100 * Scale - adjustedRisk),
                !.level = "WARNING",
                !.reason = Some("ClawHub moderation marked this skill as suspicious.")]
    ELSE baseDecision

StartScan ==
    /\ pc = "idle"
    /\ command' \in {"scan-local", "scan-clawhub"}
    /\ options' \in ScanOptions
    /\ pc' = "resolving"
    /\ UNCHANGED <<resolved, decision, summaries, overall, gate, exitCode, error,
                   installerCalls, scoreVars, levelVars, resolverVars>>

ScanResolveFails ==
    /\ command \in {"scan-local", "scan-clawhub"} /\ pc = "resolving"
    /\ \E code \in IF command = "scan-local" THEN {"INVALID_LOCAL_PATH"}
                   ELSE ResolverErrors :
          Throw(code)
    /\ UNCHANGED <<scoreVars, levelVars, resolverVars>>

ScanResolve ==
    /\ command \in {"scan-local", "scan-clawhub"} /\ pc = "resolving"
    /\ \E skill \in IF command = "scan-local" THEN ScanLocalSkills ELSE ClawHubSkills :
          resolved' = Some(skill)
    /\ pc' = "resolved"
    /\ UNCHANGED <<command, options, decision, summaries, overall, gate, exitCode, error,
                   installerCalls, scoreVars, levelVars, resolverVars>>

ScanLocalReport ==
    /\ command = "scan-local" /\ pc = "resolved"
    /\ LET d == decisionOf(Val(resolved), options)
       IN  /\ decision' = Some(d)
           /\ exitCode' = Some(blockedExitCode(d.level))
    /\ pc' = "done"
    /\ UNCHANGED <<command, options, resolved, summaries, overall, gate, error,
                   installerCalls, scoreVars, levelVars, resolverVars>>

ScanClawHubReport ==
    /\ command = "scan-clawhub" /\ pc = "resolved"
    /\ LET baseDecision == decisionOf(Val(resolved), options)
           d == alignWithClawHubModeration(baseDecision,
                                           Val(resolved).clawhubModeration)
       IN  /\ decision' = Some(d)
           /\ exitCode' = Some(blockedExitCode(d.level))
    /\ pc' = "done"
    /\ UNCHANGED <<command, options, resolved, summaries, overall, gate, error,
                   installerCalls, scoreVars, levelVars, resolverVars>>

Init ==
    /\ ScoreIdle
    /\ LevelIdle
    /\ CommandIdle
    /\ ResolverIdle

Next ==
    \/ StartAdd
    \/ AddResolveFails
    \/ AddResolve
    \/ AddScanAndGate
    \/ StartInteractive
    \/ InteractiveResolveFails
    \/ InteractiveScanSkill
    \/ InteractiveGate
    \/ InstallerExit
    \/ StartScan
    \/ ScanResolveFails
    \/ ScanResolve
    \/ ScanLocalReport
    \/ ScanClawHubReport

Spec == Init /\ [][Next]_vars

-----------------------------------------------------------------------------
(* Inputs of the scoring specification *)

MaxFindings == 4

MkFinding(sev, conf, type) ==
    [id |-> "probe", severity |-> sev, confidence |-> conf, type |-> type,
     file |-> "SKILL.md"]

\* Findings that exercise each branch of the engine: the hard block and its
\* three near misses, every severity, every confidence, every chain type.
FindingSample ==
    { MkFinding("CRITICAL", "high", "REMOTE_CODE_EXEC"),
      MkFinding("CRITICAL", "high", "OTHER"),
      MkFinding("CRITICAL", "medium", "DESTRUCTIVE_OP"),
      MkFinding("HIGH", "high", "PRIV_ESCALATION"),
      MkFinding("HIGH", "medium", "SECRET_READ"),
      MkFinding("HIGH", "medium", "DECODE_EXEC"),
      MkFinding("HIGH", "medium", "REMOTE_CODE_EXEC"),
      MkFinding("MEDIUM", "medium", "NETWORK_POST"),
      MkFinding("MEDIUM", "high", "OTHER"),
      MkFinding("MEDIUM", "low", "OTHER"),
      MkFinding("LOW", "low", "ENV_ACCESS"),
      MkFinding("LOW", "low", "FILE_STAGE"),
      MkFinding("INFO", "high", "OTHER") }

\* Requested trust credits: negative, none, inside the cap, above the cap
TrustCreditsSample == {-5, 0, 10, 25}

InitScore ==
    /\ ScoreIdle
    /\ LevelIdle
    /\ CommandIdle
    /\ ResolverIdle

\* The caller appends one more finding to the list it will score.
AddFinding ==
    /\ scoring = Null
    /\ Len(findings) < MaxFindings
    /\ \E f \in FindingSample : findings' = Append(findings, f)
    /\ UNCHANGED <<scoreOptions, scoring, levelVars, cmdVars, resolverVars>>

\* calculateRiskScore(findings, options)
Calculate ==
    /\ scoring = Null
    /\ \E strict \in BOOLEAN, tc \in TrustCreditsSample, unv \in BOOLEAN :
          LET opts == [strict |-> strict, trustCredits |-> tc,
                       hasUnverifiableContent |-> unv]
          IN  /\ scoreOptions' = opts
              /\ scoring' = Some(calculateRiskScore(findings, opts))
    /\ UNCHANGED <<findings, levelVars, cmdVars, resolverVars>>

NextScore == AddFinding \/ Calculate

SpecScore == InitScore /\ [][NextScore]_vars

-----------------------------------------------------------------------------
(* Inputs of the threshold specification: decideLevel applied to two scores *)

StandardThresholds == {29, 59, 79}
StrictThresholds == {19, 39, 59}

\* Every half point of [0,100], and every tenth within one point of a threshold
ScoreGrid ==
    {s \in 0..(100 * Scale) :
        \/ s % 5 = 0
        \/ \E t \in StandardThresholds \cup StrictThresholds :
              s >= (t - 1) * Scale /\ s <= (t + 1) * Scale}

InitLevel ==
    /\ ScoreIdle
    /\ CommandIdle
    /\ ResolverIdle
    /\ levelStrict \in BOOLEAN
    /\ levelCalls = <<>>

\* decideLevel(riskScore, strict), called once for each score of a pair
DecideLevel ==
    /\ Len(levelCalls) < 2
    /\ \E s \in ScoreGrid :
          levelCalls' = Append(levelCalls,
                               [riskScore |-> s, level |-> decideLevel(s, levelStrict)])
    /\ UNCHANGED <<scoreVars, levelStrict, cmdVars, resolverVars>>

NextLevel == DecideLevel

SpecLevel == InitLevel /\ [][NextLevel]_vars

-----------------------------------------------------------------------------
(* The network call specification: one resolver call and its attempts *)

InitRetry ==
    /\ ScoreIdle
    /\ LevelIdle
    /\ CommandIdle
    /\ listing = NoListing
    /\ resolution = Null
    /\ ExtIdle
    /\ call \in {StartedCall("github", op, r) :
                    op \in GitHubOperations, r \in 0..MaxRetries}
                \cup {StartedCall("clawhub", op, r) :
                    op \in ClawHubOperations, r \in 0..MaxRetries}

\* withRetry(operation, retries, baseDelayMs, fn): one turn of its loop
WithRetryAttempt ==
    /\ call.origin = "github" /\ call.state = "running"
    /\ \E outcome \in Outcomes : call' = withRetryStep(call, outcome)
    /\ UNCHANGED <<listing, resolution, extVars, scoreVars, levelVars, cmdVars>>

\* A registry request
ClawHubFetch ==
    /\ call.origin = "clawhub" /\ call.state = "running"
    /\ \E outcome \in Outcomes : call' = fetchStep(call, outcome)
    /\ UNCHANGED <<listing, resolution, extVars, scoreVars, levelVars, cmdVars>>

NextRetry == WithRetryAttempt \/ ClawHubFetch

\* The timer of the backoff delay fires and the loop goes on
SpecRetry == InitRetry /\ [][NextRetry]_vars /\ WF_vars(NextRetry)

-----------------------------------------------------------------------------
(* The file resolution specification: one listing, resolved by one origin *)

InitFiles ==
    /\ ScoreIdle
    /\ LevelIdle
    /\ CommandIdle
    /\ call = NoCall
    /\ listing \in [entries : Listings, maxTotalFiles : 1..MaxEntries,
                    maxAuxFiles : 1..MaxEntries]
    /\ resolution = Null
    /\ ExtIdle

\* resolveSkillFromGitHub on the listed tree
ResolveSkillFromGitHub ==
    /\ resolution = Null
    /\ resolution' = Some(githubResolve(listing.entries, listing.maxTotalFiles,
                                        listing.maxAuxFiles))
    /\ UNCHANGED <<call, listing, extVars, scoreVars, levelVars, cmdVars>>

\* resolveSkillFromArchive on the listed archive
ResolveSkillFromArchive ==
    /\ resolution = Null
    /\ resolution' = Some(archiveResolve(listing.entries, listing.maxTotalFiles))
    /\ UNCHANGED <<call, listing, extVars, scoreVars, levelVars, cmdVars>>

\* runScanLocalCommand on the listed directory
RunScanLocalResolve ==
    /\ resolution = Null
    /\ resolution' = Some(scanLocalResolve(listing.entries, listing.maxTotalFiles))
    /\ UNCHANGED <<call, listing, extVars, scoreVars, levelVars, cmdVars>>

\* runInteractiveInstallCommand on the listed skill directory
RunInteractiveResolve ==
    /\ resolution = Null
    /\ resolution' = Some(interactiveResolve(listing.entries, listing.maxTotalFiles))
    /\ UNCHANGED <<call, listing, extVars, scoreVars, levelVars, cmdVars>>

NextFiles ==
    \/ ResolveSkillFromGitHub
    \/ ResolveSkillFromArchive
    \/ RunScanLocalResolve
    \/ RunInteractiveResolve

SpecFiles == InitFiles /\ [][NextFiles]_vars

-----------------------------------------------------------------------------
(* The reference specification: the candidates found in one skill file *)

InitRefs ==
    /\ ScoreIdle
    /\ LevelIdle
    /\ CommandIdle
    /\ call = NoCall
    /\ listing = NoListing
    /\ resolution = Null
    /\ refInput \in [skillDir : SkillDirs, knownPaths : {KnownPaths},
                     candidates : {<<>>}]
    /\ referenced = Null
    /\ ScanIdle
    /\ PolicyIdle
    /\ LaterIdle

\* One more match of a pattern in the skill file
FindCandidate ==
    /\ referenced = Null
    /\ Len(refInput.candidates) < MaxRefs
    /\ \E c \in Candidates :
          refInput' = [refInput EXCEPT !.candidates = Append(@, c)]
    /\ UNCHANGED <<referenced, scanVars, policyRun, laterVars, call, listing, resolution, scoreVars, levelVars, cmdVars>>

\* extractReferencedPaths returns
ExtractReferencedPaths ==
    /\ referenced = Null
    /\ referenced' = Some(extractReferencedPaths(refInput.candidates,
                              refInput.skillDir, refInput.knownPaths))
    /\ UNCHANGED <<refInput, scanVars, policyRun, laterVars, call, listing, resolution, scoreVars, levelVars, cmdVars>>

NextRefs == FindCandidate \/ ExtractReferencedPaths

SpecRefs == InitRefs /\ [][NextRefs]_vars

-----------------------------------------------------------------------------
(* The scanner specification: a skill built file by file, then scanned *)

InitScan ==
    /\ ScoreIdle
    /\ LevelIdle
    /\ CommandIdle
    /\ call = NoCall
    /\ listing = NoListing
    /\ resolution = Null
    /\ RefIdle
    /\ scanInput \in [files : {<<>>}, unverifiableReasons : ReasonsSample]
    /\ scanResult = Null
    /\ PolicyIdle
    /\ LaterIdle

RECURSIVE TotalPieces(_)
TotalPieces(files) ==
    IF files = <<>> THEN 0
    ELSE Len(files[Len(files)].pieces) + TotalPieces(SubSeq(files, 1, Len(files) - 1))

\* The resolver adds the next file, still empty
ScanAddFile ==
    /\ scanResult = Null
    /\ Len(scanInput.files) < MaxFiles
    /\ scanInput' = [scanInput EXCEPT !.files =
                        Append(@, [path |-> FilePaths[Len(@) + 1], pieces |-> <<>>])]
    /\ UNCHANGED <<scanResult, refVars, policyRun, laterVars, call, listing, resolution,
                   scoreVars, levelVars, cmdVars>>

\* The last file has one more piece of content
ScanAddPiece ==
    /\ scanResult = Null
    /\ scanInput.files # <<>>
    /\ TotalPieces(scanInput.files) < MaxPieces
    /\ \E p \in Pieces :
          scanInput' = [scanInput EXCEPT
                           !.files[Len(scanInput.files)].pieces = Append(@, p)]
    /\ UNCHANGED <<scanResult, refVars, policyRun, laterVars, call, listing, resolution,
                   scoreVars, levelVars, cmdVars>>

\* scanResolvedSkill(skill)
ScanResolvedSkill ==
    /\ scanResult = Null
    /\ scanResult' = Some(scanSkillContent(scanInput))
    /\ UNCHANGED <<scanInput, refVars, policyRun, laterVars, call, listing, resolution,
                   scoreVars, levelVars, cmdVars>>

NextScan == ScanAddFile \/ ScanAddPiece \/ ScanResolvedSkill

SpecScan == InitScan /\ [][NextScan]_vars

-----------------------------------------------------------------------------
(* The policy specification: an installing command up to its resolution *)

InitPolicy ==
    /\ ScoreIdle
    /\ LevelIdle
    /\ CommandIdle
    /\ call = NoCall
    /\ listing = NoListing
    /\ resolution = Null
    /\ RefIdle
    /\ ScanIdle
    /\ LaterIdle
    /\ policyRun \in {PolicyRun(cmd, src, pol, f, u) :
                        cmd \in {"add", "interactive"}, src \in Sources,
                        pol \in Policies, f \in FlagOrigins, u \in FlagOrigins}

PolicyFrame ==
    UNCHANGED <<refVars, scanVars, laterVars, call, listing, resolution,
                scoreVars, levelVars, cmdVars>>

PolicyThrow(code) == policyRun' = [policyRun EXCEPT !.pc = "thrown", !.error = Some(code)]

\* enforceSourcePolicy(repo, loadedConfig.config.policy)
EnforceSourcePolicy ==
    /\ policyRun.pc = "start"
    /\ LET thrown == enforceSourcePolicy(policyRun.source, policyRun.policy) IN
       IF thrown # Null THEN PolicyThrow(Val(thrown))
       ELSE policyRun' = [policyRun EXCEPT !.pc = "sourceChecked"]
    /\ PolicyFrame

\* enforceOptionPolicy(options, loadedConfig.config)
EnforceOptionPolicy ==
    /\ policyRun.pc = "sourceChecked"
    /\ LET thrown == enforceOptionPolicy(effectiveFlag(policyRun.forceOrigin),
                         effectiveFlag(policyRun.allowUnverifiableOrigin),
                         policyRun.policy) IN
       IF thrown # Null THEN PolicyThrow(Val(thrown))
       ELSE policyRun' = [policyRun EXCEPT !.pc = "optionsChecked"]
    /\ PolicyFrame

\* runAddCommand: resolveSkillFromGitHub parses the source (parseRepoInput
\* takes the same two forms) and sends its first request
AddBeginResolution ==
    /\ policyRun.pc = "optionsChecked" /\ policyRun.command = "add"
    /\ IF policyRun.source.form \in {"shorthand", "githubUrl"}
       THEN policyRun' = [policyRun EXCEPT !.pc = "resolving", !.started = TRUE]
       ELSE PolicyThrow("INVALID_REPO_INPUT")
    /\ PolicyFrame

\* runInteractiveInstallCommand: resolveSource takes any other text for a
\* clone URL, and git clone is started
InteractiveBeginClone ==
    /\ policyRun.pc = "optionsChecked" /\ policyRun.command = "interactive"
    /\ policyRun' = [policyRun EXCEPT !.pc = "resolving", !.started = TRUE]
    /\ PolicyFrame

NextPolicy ==
    \/ EnforceSourcePolicy
    \/ EnforceOptionPolicy
    \/ AddBeginResolution
    \/ InteractiveBeginClone

SpecPolicy == InitPolicy /\ [][NextPolicy]_vars

-----------------------------------------------------------------------------
(* The lookup specification: one call of resolveSkillFromClawHub *)

InitLookup ==
    /\ ScoreIdle
    /\ LevelIdle
    /\ CommandIdle
    /\ call = NoCall
    /\ listing = NoListing
    /\ resolution = Null
    /\ RefIdle
    /\ ScanIdle
    /\ PolicyIdle
    /\ InstallIdle
    /\ lookup \in {Lookup(n, seg, page, override) :
                     n \in 0..MaxIdentifierCandidates,
                     seg \in {<<>>, <<"slug">>}, page \in BOOLEAN,
                     override \in {<<>>, <<"named">>}}

LookupFrame ==
    UNCHANGED <<refVars, scanVars, policyRun, install, call, listing, resolution,
                scoreVars, levelVars, cmdVars>>

LookupRequest(kind, target, outcome) ==
    Append(lookup.requests, [kind |-> kind, target |-> target, outcome |-> outcome])

LookupThrow(run, code) == [run EXCEPT !.pc = "thrown", !.error = Some(code)]

\* The start of the call: no identifier candidate is an error
LookupBegin ==
    /\ lookup.pc = "start"
    /\ lookup' = IF lookup.identifierCandidates = 0
                 THEN LookupThrow(lookup, "CLAWHUB_UNKNOWN")
                 ELSE [lookup EXCEPT !.pc = "api", !.candidate = 1, !.url = 1]
    /\ LookupFrame

\* One pass of the inner loop: fetchJson of one URL of one candidate
ApiLookup ==
    /\ lookup.pc = "api"
    /\ LET target == <<lookup.candidate, lookup.url>> IN
       \/ \E metadata \in MetadataSample :
            lookup' = [lookup EXCEPT !.pc = "collect",
                                     !.metadata = Some(metadata),
                                     !.requests = LookupRequest("api", target, "metadata")]
       \/ \E err \in LookupErrors :
            LET mapped == mapClawHubError(err)
                failed == [lookup EXCEPT !.lastError = Some(mapped.code),
                                         !.requests = LookupRequest("api", target, mapped.code)]
            IN  lookup' =
                  IF ~abandonsCandidate(mapped) /\ lookup.url < Len(ApiUrls)
                  THEN [failed EXCEPT !.url = lookup.url + 1]
                  ELSE IF lookup.candidate < lookup.identifierCandidates
                  THEN [failed EXCEPT !.candidate = lookup.candidate + 1, !.url = 1]
                  ELSE [failed EXCEPT !.pc = "page"]
    /\ LookupFrame

\* No metadata after the loops: resolveFromClawHubPageUrl, then the throw
\* when there is still none
PageFallback ==
    /\ lookup.pc = "page"
    /\ LET none(run) == LookupThrow(run, IF run.lastError # Null
                                         THEN Val(run.lastError)
                                         ELSE "CLAWHUB_NOT_FOUND")
       IN
       IF ~lookup.pageUrl THEN lookup' = none(lookup)
       ELSE \/ \E metadata \in MetadataSample :
                 lookup' = [lookup EXCEPT !.pc = "collect",
                                          !.metadata = Some(metadata),
                                          !.requests = LookupRequest("page", <<>>, "metadata")]
            \/ lookup' = none([lookup EXCEPT !.requests = LookupRequest("page", <<>>, "none")])
            \/ \E err \in LookupErrors :
                 LET mapped == mapClawHubError(err) IN
                 lookup' = none([lookup EXCEPT
                                   !.lastError = Some(mapped.code),
                                   !.requests = LookupRequest("page", <<>>, mapped.code)])
    /\ LookupFrame

\* collectGitHubRepos and collectPossibleSkillNames over the metadata
CollectCandidates ==
    /\ lookup.pc = "collect"
    /\ LET metadata == Val(lookup.metadata)
           names == collectPossibleSkillNames(lookup.lastSegment, metadata,
                                              lookup.skillNameOverride)
           collected == [lookup EXCEPT !.repos = metadata.repos,
                                       !.skillCandidates = names]
       IN  lookup' =
             IF names = <<>> THEN LookupThrow(collected, "CLAWHUB_UNKNOWN")
             ELSE IF metadata.repos = <<>> THEN [collected EXCEPT !.pc = "archive"]
             ELSE [collected EXCEPT !.pc = "github", !.repo = 1, !.skillName = 1]
    /\ LookupFrame

\* One pass of the loops over repos and skillCandidates:
\* resolveSkillFromGitHub(repo, skillName, githubOptions)
GitHubAttempt ==
    /\ lookup.pc = "github"
    /\ LET target == <<lookup.repos[lookup.repo],
                       lookup.skillCandidates[lookup.skillName]>> IN
       \/ lookup' = [lookup EXCEPT
                       !.pc = "returned",
                       !.result = Some([origin |-> "github", target |-> target]),
                       !.requests = LookupRequest("github", target, "resolved")]
       \/ LET failed == [lookup EXCEPT
                           !.requests = LookupRequest("github", target, "thrown")]
          IN  lookup' =
                IF lookup.skillName < Len(lookup.skillCandidates)
                THEN [failed EXCEPT !.skillName = lookup.skillName + 1]
                ELSE IF lookup.repo < Len(lookup.repos)
                THEN [failed EXCEPT !.repo = lookup.repo + 1, !.skillName = 1]
                ELSE [failed EXCEPT !.pc = "archive"]
    /\ LookupFrame

\* Nothing resolved from GitHub: resolveSkillFromArchive, then the throw when
\* it returns null
ArchiveAttempt ==
    /\ lookup.pc = "archive"
    /\ LET none(run) == LookupThrow(run, IF run.repos = <<>> THEN "CLAWHUB_UNKNOWN"
                                         ELSE "SKILL_NOT_FOUND")
       IN
       IF ~Val(lookup.metadata).archivable THEN lookup' = none(lookup)
       ELSE \/ lookup' = [lookup EXCEPT
                            !.pc = "returned",
                            !.result = Some([origin |-> "archive", target |-> <<>>]),
                            !.requests = LookupRequest("archive", <<>>, "resolved")]
            \/ lookup' = none([lookup EXCEPT
                                 !.requests = LookupRequest("archive", <<>>, "none")])
            \/ \E err \in LookupErrors :
                 LET mapped == mapClawHubError(err) IN
                 lookup' = LookupThrow([lookup EXCEPT
                                 !.requests = LookupRequest("archive", <<>>, mapped.code)],
                              mapped.code)
    /\ LookupFrame

NextLookup ==
    \/ LookupBegin
    \/ ApiLookup
    \/ PageFallback
    \/ CollectCandidates
    \/ GitHubAttempt
    \/ ArchiveAttempt

SpecLookup == InitLookup /\ [][NextLookup]_vars

-----------------------------------------------------------------------------
(* The install specification: an installing command and the remote it reads *)

InitInstall ==
    /\ ScoreIdle
    /\ LevelIdle
    /\ CommandIdle
    /\ call = NoCall
    /\ listing = NoListing
    /\ resolution = Null
    /\ RefIdle
    /\ ScanIdle
    /\ PolicyIdle
    /\ LookupIdle
    /\ install \in {Install(cmd, canInstall, skip) :
                      cmd \in {"add", "interactive"},
                      canInstall \in BOOLEAN, skip \in BOOLEAN}

InstallFrame ==
    UNCHANGED <<refVars, scanVars, policyRun, lookup, call, listing, resolution,
                scoreVars, levelVars, cmdVars>>

\* Someone pushes to the default branch of the remote repository
RemotePush ==
    /\ install.remoteHead < MaxRevisions
    /\ install' = [install EXCEPT !.remoteHead = install.remoteHead + 1]
    /\ InstallFrame

\* runAddCommand: resolveSkillFromGitHub reads the head of the default branch
\* (commitSha) and the files at it; runInteractiveInstallCommand: git clone
\* --depth 1 into the temporary directory. The scan reads what was fetched.
ResolveAndScan ==
    /\ install.pc = "start"
    /\ install' = [install EXCEPT !.pc = "scanned",
                                  !.scanned = Some(install.remoteHead)]
    /\ InstallFrame

\* The gate: a refusal, a dry run or CI mode returns without the installer
GateInstall ==
    /\ install.pc = "scanned"
    /\ install' = [install EXCEPT
                     !.pc = IF install.canInstall /\ ~install.skip
                            THEN "installing" ELSE "returned"]
    /\ InstallFrame

\* runSkillsInstall / runProviderInstall: npx <installer> <source> with the
\* skill name; the installer fetches the source itself
RunProviderInstall ==
    /\ install.pc = "installing"
    /\ install' = [install EXCEPT !.pc = "returned",
                                  !.installerArgs = Some(installerArgs(install)),
                                  !.installed = Some(install.remoteHead)]
    /\ InstallFrame

NextInstall ==
    \/ RemotePush
    \/ ResolveAndScan
    \/ GateInstall
    \/ RunProviderInstall

SpecInstall == InitInstall /\ [][NextInstall]_vars

-----------------------------------------------------------------------------
(* Properties of the scoring engine *)

Scored == scoring # Null
Result == Val(scoring)

\* A finding that meets the documented hard-block policy
IsHardBlockFinding(f) ==
    /\ f.severity = "CRITICAL"
    /\ f.confidence = "high"
    /\ f.type \in {"CREDENTIAL_EXFIL", "DESTRUCTIVE_OP", "REMOTE_CODE_EXEC",
                   "PRIV_ESCALATION"}

HasHardBlockFinding(fs) == \E i \in DOMAIN fs : IsHardBlockFinding(fs[i])

\* C3 (as stated): any hard-block finding forces level CRITICAL, riskScore 100
\* and safetyScore 0, whatever else is in the list, for every options value.
C3_HardBlockAlways ==
    (Scored /\ HasHardBlockFinding(findings)) =>
        /\ Result.level = "CRITICAL"
        /\ Result.riskScore = Some(100 * Scale)
        /\ Result.safetyScore = Some(0)

\* C3 (amended): when hasUnverifiableContent is false, any hard-block finding
\* forces level CRITICAL, riskScore 100 and safetyScore 0, whatever other
\* findings are present and whatever strict and trustCredits are.
C3_HardBlockUnlessUnverifiable ==
    (Scored /\ HasHardBlockFinding(findings)
            /\ ~scoreOptions.hasUnverifiableContent) =>
        /\ Result.level = "CRITICAL"
        /\ Result.riskScore = Some(100 * Scale)
        /\ Result.safetyScore = Some(0)

\* C3 witness: a hard-block finding scored together with two other findings
C3_Witness ==
    /\ Scored
    /\ Len(findings) = 3
    /\ HasHardBlockFinding(findings)
    /\ \E i \in DOMAIN findings : ~IsHardBlockFinding(findings[i])
    /\ ~scoreOptions.hasUnverifiableContent
    /\ Result.level = "CRITICAL"

\* C4: the level is UNVERIFIABLE iff hasUnverifiableContent; then riskScore
\* and safetyScore are null whatever the findings are (hard-block findings
\* included); otherwise both are non-null.
C4_UnverifiableIff ==
    Scored =>
        /\ (Result.level = "UNVERIFIABLE") <=> scoreOptions.hasUnverifiableContent
        /\ scoreOptions.hasUnverifiableContent =>
              (IsNull(Result.riskScore) /\ IsNull(Result.safetyScore))
        /\ ~scoreOptions.hasUnverifiableContent =>
              (~IsNull(Result.riskScore) /\ ~IsNull(Result.safetyScore))

\* C4 witness: unverifiable content scored together with a hard-block finding
C4_Witness ==
    /\ Scored
    /\ scoreOptions.hasUnverifiableContent
    /\ HasHardBlockFinding(findings)
    /\ Result.level = "UNVERIFIABLE"
    /\ IsNull(Result.riskScore)

\* C8: every non-null riskScore lies in [0,100] and safetyScore is
\* 100 - riskScore, for every finding list and every requested trustCredits.
C8_ScoreBounds ==
    (Scored /\ ~IsNull(Result.riskScore)) =>
        /\ Val(Result.riskScore) >= 0
        /\ Val(Result.riskScore) <= 100 * Scale
        /\ ~IsNull(Result.safetyScore)
        /\ Val(Result.safetyScore) = 100 * Scale - Val(Result.riskScore)

\* C8 witness: the clamp acted at either end: requested credits exceed the
\* subtotal (score 0), or the unclamped sum exceeds 100 without a hard block.
C8_Witness ==
    /\ Scored
    /\ ~IsNull(Result.riskScore)
    /\ ~HasHardBlockFinding(findings)
    /\ \/ /\ Val(Result.riskScore) = 0
          /\ Result.breakdown.findingsSubtotal > 0
          /\ Result.breakdown.trustCredits > Result.breakdown.findingsSubtotal
       \/ /\ Val(Result.riskScore) = 100 * Scale
          /\ Result.breakdown.findingsSubtotal + Result.breakdown.chainBonus
               > 100 * Scale

InClosedRange(v, lo, hi) == v >= lo * Scale /\ v <= hi * Scale

\* C9 (as stated): every non-null riskScore falls in one of the listed closed
\* ranges of the selected table and has that range's level.
C9_ListedRanges ==
    (Scored /\ ~IsNull(Result.riskScore)) =>
        LET v == Val(Result.riskScore)
        IN  IF ~scoreOptions.strict
            THEN \/ InClosedRange(v, 0, 29) /\ Result.level = "SAFE"
                 \/ InClosedRange(v, 30, 59) /\ Result.level = "WARNING"
                 \/ InClosedRange(v, 60, 79) /\ Result.level = "UNSAFE"
                 \/ InClosedRange(v, 80, 100) /\ Result.level = "CRITICAL"
            ELSE \/ InClosedRange(v, 0, 19) /\ Result.level = "SAFE"
                 \/ InClosedRange(v, 20, 39) /\ Result.level = "WARNING"
                 \/ InClosedRange(v, 40, 59) /\ Result.level = "UNSAFE"
                 \/ InClosedRange(v, 60, 100) /\ Result.level = "CRITICAL"

\* C9 (amended): every non-null riskScore is mapped by upper thresholds:
\* standard <= 29 SAFE, (29,59] WARNING, (59,79] UNSAFE, above 79 CRITICAL;
\* strict <= 19 SAFE, (19,39] WARNING, (39,59] UNSAFE, above 59 CRITICAL.
\* Scores between two listed ranges (29.5) take the upper range's level.
C9_Thresholds ==
    (Scored /\ ~IsNull(Result.riskScore)) =>
        LET v == Val(Result.riskScore)
            t1 == IF scoreOptions.strict THEN 19 * Scale ELSE 29 * Scale
            t2 == IF scoreOptions.strict THEN 39 * Scale ELSE 59 * Scale
            t3 == IF scoreOptions.strict THEN 59 * Scale ELSE 79 * Scale
        IN  /\ v >= 0 /\ v <= 100 * Scale
            /\ (Result.level = "SAFE") <=> (v <= t1)
            /\ (Result.level = "WARNING") <=> (v > t1 /\ v <= t2)
            /\ (Result.level = "UNSAFE") <=> (v > t2 /\ v <= t3)
            /\ (Result.level = "CRITICAL") <=> (v > t3)

\* C9 witness: a fractional score strictly between two listed ranges
C9_Witness ==
    /\ Scored
    /\ ~IsNull(Result.riskScore)
    /\ ~scoreOptions.strict
    /\ Val(Result.riskScore) > 29 * Scale
    /\ Val(Result.riskScore) < 30 * Scale
    /\ Result.level = "WARNING"

LevelRank(level) ==
    CASE level = "SAFE" -> 0
      [] level = "WARNING" -> 1
      [] level = "UNSAFE" -> 2
      [] level = "CRITICAL" -> 3

\* C10: under a fixed strict setting, for two scores a <= b the level of b is
\* at least as severe as the level of a (SAFE < WARNING < UNSAFE < CRITICAL).
C10_ThresholdMonotone ==
    \A i, j \in DOMAIN levelCalls :
        levelCalls[i].riskScore <= levelCalls[j].riskScore =>
            LevelRank(levelCalls[i].level) <= LevelRank(levelCalls[j].level)

\* C10 witness: two scores on the two sides of a threshold, the higher one
\* with the strictly more severe level
C10_Witness ==
    /\ Len(levelCalls) = 2
    /\ levelStrict
    /\ levelCalls[1].riskScore < levelCalls[2].riskScore
    /\ levelCalls[1].level = "WARNING"
    /\ levelCalls[2].level = "UNSAFE"

-----------------------------------------------------------------------------
(* Properties of the gate and of the commands *)

Gated == gate # Null
Installs == command \in {"add", "interactive"}

\* C1: evaluateGate follows the table for every level and every combination
\* of yes, force and allowUnverifiable; exitCode is in {0,10,20} and
\* canInstall holds exactly when exitCode = 0.
C1_GateTable ==
    Gated =>
        LET level == Val(overall)
            g == Val(gate)
            expected(can, code) == g.canInstall = can /\ g.exitCode = code
        IN  /\ level = "UNVERIFIABLE" =>
                  IF options.allowUnverifiable THEN expected(TRUE, 0)
                  ELSE expected(FALSE, 20)
            /\ level = "CRITICAL" => expected(FALSE, 20)
            /\ level = "UNSAFE" =>
                  IF options.force THEN expected(TRUE, 0) ELSE expected(FALSE, 20)
            /\ level = "WARNING" =>
                  IF options.yes THEN expected(TRUE, 0) ELSE expected(FALSE, 10)
            /\ level = "SAFE" => expected(TRUE, 0)
            /\ g.exitCode \in {0, 10, 20}
            /\ g.canInstall <=> (g.exitCode = 0)

\* C1 witness: WARNING without --yes is blocked with exit code 10 although
\* --force and --allow-unverifiable are given
C1_Witness ==
    /\ Gated
    /\ Val(overall) = "WARNING"
    /\ ~options.yes /\ options.force /\ options.allowUnverifiable
    /\ Val(gate).exitCode = 10
    /\ ~Val(gate).canInstall

\* C2: in add and in the interactive install the installer is started only
\* when the gate allowed it and dryRun and ci are both false; a blocking gate
\* makes the command return the gate's code (10 or 20), and an allowing gate
\* with dryRun or ci makes it return 0, both without starting the installer.
C2_InstallOnlyWhenAllowed ==
    Installs =>
        /\ installerCalls > 0 =>
              (Gated /\ Val(gate).canInstall /\ ~options.dryRun /\ ~options.ci)
        /\ (Gated /\ ~Val(gate).canInstall) =>
              /\ exitCode = Some(Val(gate).exitCode)
              /\ Val(exitCode) \in {10, 20}
              /\ installerCalls = 0
        /\ (Gated /\ Val(gate).canInstall /\ (options.dryRun \/ options.ci)) =>
              /\ exitCode = Some(0)
              /\ installerCalls = 0

\* C2 witness: the gate allows, CI mode alone holds the installer back
C2_Witness ==
    /\ command = "add"
    /\ Gated
    /\ Val(gate).canInstall
    /\ options.ci /\ ~options.dryRun
    /\ exitCode = Some(0)
    /\ installerCalls = 0

\* The skills the running command resolved gave at least one unverifiable reason
SomeUnverifiableReason ==
    \/ resolved # Null /\ Val(resolved).unverifiableReasons # <<>>
    \/ \E i \in DOMAIN summaries : summaries[i].unverifiableReasons # <<>>

\* The level a command ends with: the reported decision's, or the overall one
FinalLevels ==
    (IF decision # Null THEN {Val(decision).level} ELSE {})
    \cup (IF overall # Null THEN {Val(overall)} ELSE {})

\* C5: in every command, a skill resolved with an unverifiable reason never
\* ends with level SAFE, and the installer is not started for it unless
\* allowUnverifiable is set.
C5_UnverifiableNeverSafe ==
    SomeUnverifiableReason =>
        /\ "SAFE" \notin FinalLevels
        /\ installerCalls > 0 => options.allowUnverifiable

\* C5 witness: an unverifiable skill was reported, blocked and not installed
C5_Witness ==
    /\ command = "interactive"
    /\ SomeUnverifiableReason
    /\ Gated
    /\ Val(overall) = "UNVERIFIABLE"
    /\ ~options.allowUnverifiable
    /\ exitCode = Some(20)
    /\ installerCalls = 0

\* C6: in the interactive install, if some scanned skill's level is CRITICAL
\* the installer is not started and the returned exit code is non-zero, for
\* every combination of yes, force and allowUnverifiable.
C6_CriticalNeverInstalls ==
    (command = "interactive" /\ Gated
        /\ \E i \in DOMAIN summaries : summaries[i].level = "CRITICAL") =>
        /\ installerCalls = 0
        /\ exitCode # Null => Val(exitCode) # 0

\* C7: in add, a skill whose scan yields a hard-block finding is never
\* installed, for every combination of yes, force and allowUnverifiable.
C7_HardBlockNeverInstalls ==
    (command = "add" /\ decision # Null
        /\ HasHardBlockFinding(Val(decision).findings)) =>
        installerCalls = 0

-----------------------------------------------------------------------------
(* Properties of the trust credits and of the attack chains *)

HasHighOrCriticalFinding(fs) ==
    \E i \in DOMAIN fs : fs[i].severity \in {"HIGH", "CRITICAL"}

\* min(max(0, requested), 20), in tenths
CappedRequest(requested) == Min(Max(0, requested), 20) * Scale

\* The risk score of the same call with no trust credits requested
RiskWithoutRequest ==
    calculateRiskScore(findings, [scoreOptions EXCEPT !.trustCredits = 0]).riskScore

\* A negative request gives a risk score no higher than no request does
NegativeRequestNeverRaises ==
    scoreOptions.trustCredits < 0 =>
        IF IsNull(Result.riskScore) THEN IsNull(RiskWithoutRequest)
        ELSE /\ ~IsNull(RiskWithoutRequest)
             /\ Val(Result.riskScore) <= Val(RiskWithoutRequest)

\* C11 (as stated): breakdown.trustCredits is min(max(0, requested), 20)
\* whenever no finding is HIGH or CRITICAL, is 0 whenever some finding is, on
\* every path, and a negative request never increases the risk score.
C11_TrustCreditsAlways ==
    Scored =>
        /\ ~HasHighOrCriticalFinding(findings) =>
              Result.breakdown.trustCredits = CappedRequest(scoreOptions.trustCredits)
        /\ HasHighOrCriticalFinding(findings) => Result.breakdown.trustCredits = 0
        /\ NegativeRequestNeverRaises

\* C11 (amended): on the scored path (no unverifiable content) trustCredits is
\* min(max(0, requested), 20) when no finding is HIGH or CRITICAL; it is 0
\* whenever some finding is HIGH or CRITICAL and on the whole unverifiable
\* path; a negative request never increases the risk score.
C11_TrustCredits ==
    Scored =>
        /\ (~HasHighOrCriticalFinding(findings) /\ ~scoreOptions.hasUnverifiableContent) =>
              Result.breakdown.trustCredits = CappedRequest(scoreOptions.trustCredits)
        /\ HasHighOrCriticalFinding(findings) => Result.breakdown.trustCredits = 0
        /\ scoreOptions.hasUnverifiableContent => Result.breakdown.trustCredits = 0
        /\ NegativeRequestNeverRaises

\* C11 witness: a request of 25 is capped at 20 and lowers a positive score
C11_Witness ==
    /\ Scored
    /\ ~HasHighOrCriticalFinding(findings)
    /\ ~scoreOptions.hasUnverifiableContent
    /\ scoreOptions.trustCredits = 25
    /\ Result.breakdown.trustCredits = 20 * Scale
    /\ Val(Result.riskScore) = Result.breakdown.findingsSubtotal - 20 * Scale
    /\ Val(Result.riskScore) > 0

\* The finding types that occur in a list
TypesOf(fs) == {fs[i].type : i \in DOMAIN fs}

\* The ids of the chains a result reports
ChainIds(r) == {r.chainMatches[i].id : i \in DOMAIN r.chainMatches}

\* The documented attack chain matrix: id, required types, bonus in points
ChainMatrix ==
    { [id |-> "CHAIN_SECRET_EXFIL", required |-> {"SECRET_READ", "NETWORK_POST"},
       bonus |-> 25],
      [id |-> "CHAIN_DECODE_EXEC", required |-> {"DECODE_EXEC", "REMOTE_CODE_EXEC"},
       bonus |-> 30],
      [id |-> "CHAIN_ENV_STAGE_EXFIL",
       required |-> {"ENV_ACCESS", "FILE_STAGE", "NETWORK_POST"},
       bonus |-> 20] }

\* The sum of the bonuses of a set of chains, in tenths
RECURSIVE BonusSum(_)
BonusSum(chains) ==
    IF chains = {} THEN 0
    ELSE LET c == CHOOSE x \in chains : TRUE
         IN  c.bonus * Scale + BonusSum(chains \ {c})

\* A result reports exactly the chains whose required types all occur, once
\* each, and its chainBonus is the sum of their bonuses
ChainsAsDocumented ==
    /\ \A c \in ChainMatrix :
          c.id \in ChainIds(Result) <=> c.required \subseteq TypesOf(findings)
    /\ Len(Result.chainMatches) = Cardinality(ChainIds(Result))
    /\ Result.breakdown.chainBonus =
          BonusSum({c \in ChainMatrix : c.id \in ChainIds(Result)})

\* C12 (as stated): in the result of calculateRiskScore each chain is in
\* chainMatches iff every one of its required types occurs in the findings
\* (CHAIN_SECRET_EXFIL iff SECRET_READ and NETWORK_POST), and chainBonus is
\* the sum of the matched chains' bonuses.
C12_ChainsAlways == Scored => ChainsAsDocumented

\* C12 (amended): the same on the scored path; with unverifiable content or a
\* hard-block finding the result reports no chain and a chainBonus of 0.
C12_Chains ==
    Scored =>
        IF scoreOptions.hasUnverifiableContent \/ HasHardBlockFinding(findings)
        THEN Result.chainMatches = <<>> /\ Result.breakdown.chainBonus = 0
        ELSE ChainsAsDocumented

\* C12 witness: four findings in any order complete two chains that share
\* NETWORK_POST, and the bonus is 25 + 20
C12_Witness ==
    /\ Scored
    /\ ~scoreOptions.hasUnverifiableContent
    /\ TypesOf(findings) = {"SECRET_READ", "NETWORK_POST", "ENV_ACCESS", "FILE_STAGE"}
    /\ findings[1].type = "NETWORK_POST"
    /\ ChainIds(Result) = {"CHAIN_SECRET_EXFIL", "CHAIN_ENV_STAGE_EXFIL"}
    /\ Result.breakdown.chainBonus = 45 * Scale

-----------------------------------------------------------------------------
(* The documented two-file scenario *)

\* The finding a detector rule produces, as the scoring engine sees it
FindingOfRule(ruleId) ==
    LET rule == CHOOSE r \in Range(RULES) : r.id = ruleId
    IN  MkFinding(rule.severity, rule.confidence, rule.type)

\* One file reads process.env (SECRET_READ and ENV_ACCESS) or a secret path
\* (SECRET_READ alone), the other posts a request body (NETWORK_POST)
ScenarioFindingSets ==
    { {FindingOfRule("R005_SECRET_READ"), FindingOfRule("R006_NETWORK_POST")},
      {FindingOfRule("R005_SECRET_READ"), FindingOfRule("R008_ENV_ACCESS"),
       FindingOfRule("R006_NETWORK_POST")} }

IsScenario ==
    /\ Range(findings) \in ScenarioFindingSets
    /\ Len(findings) = Cardinality(Range(findings))
    /\ ~scoreOptions.hasUnverifiableContent
    /\ ~scoreOptions.strict

\* C13: the findings of the two-file scenario (SECRET_READ, with or without
\* ENV_ACCESS, and NETWORK_POST; no CRITICAL finding, no unverifiable content)
\* score, under standard thresholds, with CHAIN_SECRET_EXFIL in chainMatches,
\* a riskScore in [30,59] and level WARNING.
C13_ScenarioWarning ==
    (Scored /\ IsScenario) =>
        /\ "CHAIN_SECRET_EXFIL" \in ChainIds(Result)
        /\ ~IsNull(Result.riskScore)
        /\ Val(Result.riskScore) >= 30 * Scale
        /\ Val(Result.riskScore) <= 59 * Scale
        /\ Result.level = "WARNING"

\* C13 witness: the process.env variant scores 17.5 + 2 + 8.4 + 25 = 52.9
C13_Witness ==
    /\ Scored
    /\ IsScenario
    /\ Len(findings) = 3
    /\ scoreOptions.trustCredits = 10
    /\ Result.breakdown.trustCredits = 0
    /\ Val(Result.riskScore) = 529
    /\ Result.level = "WARNING"

-----------------------------------------------------------------------------
(* Properties of the registry moderation step and of the aggregation *)

\* scan-clawhub has reported its decision
ModerationApplied == command = "scan-clawhub" /\ pc = "done" /\ decision # Null

\* The local result the reported decision was computed from
BaseDecision == decisionOf(Val(resolved), options)

\* The registry set the named moderation flag on the resolved skill
Flagged(flag) ==
    /\ Val(resolved).clawhubModeration # Null
    /\ Val(Val(resolved).clawhubModeration)[flag]

\* C14: the moderation step transforms the computed local result: a
\* malware-blocked flag forces riskScore 100, safetyScore 0, level CRITICAL;
\* otherwise a suspicious flag raises a SAFE result to WARNING with riskScore
\* max(riskScore, 30) and leaves a non-SAFE result unchanged; with no flag the
\* result is unchanged; findings, chainMatches and breakdown are always kept.
C14_ModerationTransform ==
    ModerationApplied =>
        LET d == Val(decision)
        IN  /\ d.findings = BaseDecision.findings
            /\ d.chainMatches = BaseDecision.chainMatches
            /\ d.breakdown = BaseDecision.breakdown
            /\ Flagged("isMalwareBlocked") =>
                  /\ d.riskScore = Some(100 * Scale)
                  /\ d.safetyScore = Some(0)
                  /\ d.level = "CRITICAL"
            /\ (~Flagged("isMalwareBlocked") /\ Flagged("isSuspicious")
                    /\ BaseDecision.level = "SAFE") =>
                  /\ d.level = "WARNING"
                  /\ d.riskScore = Some(Max(Val(BaseDecision.riskScore), 30 * Scale))
            /\ (~Flagged("isMalwareBlocked") /\ Flagged("isSuspicious")
                    /\ BaseDecision.level # "SAFE") =>
                  d = BaseDecision
            /\ (~Flagged("isMalwareBlocked") /\ ~Flagged("isSuspicious")) =>
                  d = BaseDecision

\* C14 witness: a SAFE local result with a finding, flagged suspicious only,
\* is reported as WARNING with riskScore 30 and the finding kept
C14_Witness ==
    /\ ModerationApplied
    /\ Flagged("isSuspicious") /\ ~Flagged("isMalwareBlocked")
    /\ BaseDecision.level = "SAFE"
    /\ BaseDecision.findings # <<>>
    /\ Val(BaseDecision.riskScore) > 0
    /\ Val(decision).level = "WARNING"
    /\ Val(decision).riskScore = Some(30 * Scale)
    /\ Val(decision).findings = BaseDecision.findings

\* The aggregation ordering UNVERIFIABLE > CRITICAL > UNSAFE > WARNING > SAFE
AggregateRank ==
    [SAFE |-> 0, WARNING |-> 1, UNSAFE |-> 2, CRITICAL |-> 3, UNVERIFIABLE |-> 4]

\* The interactive install has aggregated the levels of the skills it scanned
Aggregated == command = "interactive" /\ overall # Null

\* The set of per-skill levels: order and multiplicity forgotten
SkillLevels == {summaries[i].level : i \in DOMAIN summaries}

\* C15: the overall level passed to the gate is the worst per-skill level in
\* the order UNVERIFIABLE > CRITICAL > UNSAFE > WARNING > SAFE; it is
\* determined by the set of levels, not by their order or multiplicity.
C15_WorstLevelWins ==
    Aggregated =>
        /\ Val(overall) \in SkillLevels
        /\ \A l \in SkillLevels : AggregateRank[l] <= AggregateRank[Val(overall)]

\* C15 witness: the worst level comes first, and a second skill is milder
C15_Witness ==
    /\ Aggregated
    /\ Len(summaries) = 2
    /\ summaries[1].level = "UNSAFE"
    /\ summaries[2].level = "WARNING"
    /\ Val(overall) = "UNSAFE"

-----------------------------------------------------------------------------
(* Properties of the retry loop and of the error classification *)

\* The call under way is made through withRetry
Wrapped == call.origin = "github"

\* The call has returned a value or thrown
Finished == call.state \in {"returned", "thrown"}

\* The attempts of a call through withRetry, counted
AttemptsBounded ==
    Wrapped =>
        /\ call.invocations <= call.retries + 1
        /\ call.state = "running" => call.invocations = call.attempt
        /\ call.state = "returned" => call.invocations = call.attempt + 1
        /\ (call.state = "thrown" /\ Val(call.mapped).retryable) =>
              /\ call.invocations = call.retries + 1
              /\ call.attempt = call.retries

\* C16: a call through withRetry with retries = r (0..6) invokes the wrapped
\* operation at most r + 1 times; when it gives up on a retryable error it has
\* made exactly r + 1 attempts; a successful attempt returns and nothing is
\* invoked afterwards; every call terminates.
C16_BoundedRetry ==
    /\ []AttemptsBounded
    /\ [][Finished => call' = call]_call
    /\ <>Finished

\* C16 witness: retries = 2, the server answered 503 each time: three
\* attempts, then GITHUB_TRANSIENT is thrown
C16_Witness ==
    /\ Wrapped
    /\ call.retries = 2
    /\ call.state = "thrown"
    /\ call.invocations = 3
    /\ call.raw = Some([status |-> Some(503), fragments |-> {}])
    /\ Val(call.mapped).code = "GITHUB_TRANSIENT"
    /\ Val(call.mapped).retryable

\* The classes of the typed errors, for both origins
AuthCodes == {"GITHUB_AUTH", "CLAWHUB_AUTH"}
NotFoundCodes == {"GITHUB_NOT_FOUND", "CLAWHUB_NOT_FOUND"}
RateLimitCodes == {"GITHUB_RATE_LIMIT", "CLAWHUB_RATE_LIMIT"}
TransientCodes == {"GITHUB_TRANSIENT", "CLAWHUB_TRANSIENT"}
TimeoutCodes == {"GITHUB_TIMEOUT", "CLAWHUB_TIMEOUT"}
UnknownCodes == {"GITHUB_UNKNOWN", "CLAWHUB_UNKNOWN"}

\* The statuses the classification names
NamedStatuses == {401, 403, 404, 429, 500, 502, 503, 504}

\* The error's status is one of the given ones
StatusIn(err, statuses) == err.status # Null /\ Val(err.status) \in statuses

\* The error's message tells of a timeout or of an abort signal
TimeoutOrAbort(err) == err.fragments # {}

\* The last attempt failed and the call was given up at once
FailedAtOnce ==
    /\ call.state = "thrown"
    /\ call.invocations = call.attempt + 1

\* C17 (as stated): 429 is rate-limit and 500/502/503/504 transient, both
\* retryable; a timeout or abort signal is timeout, retryable; 401/403 is auth
\* and 404 not-found, both given up at once; anything else is unknown and
\* given up at once; the status decides before the message; only a
\* retryable error is followed by another attempt.
C17_Classification ==
    call.raw # Null =>
        LET err == Val(call.raw)
            mapped == Val(call.mapped)
        IN  /\ StatusIn(err, {429}) =>
                  mapped.code \in RateLimitCodes /\ mapped.retryable
            /\ StatusIn(err, {500, 502, 503, 504}) =>
                  mapped.code \in TransientCodes /\ mapped.retryable
            /\ StatusIn(err, {401, 403}) =>
                  mapped.code \in AuthCodes /\ ~mapped.retryable /\ FailedAtOnce
            /\ StatusIn(err, {404}) =>
                  mapped.code \in NotFoundCodes /\ ~mapped.retryable /\ FailedAtOnce
            /\ (~StatusIn(err, NamedStatuses) /\ TimeoutOrAbort(err)) =>
                  mapped.code \in TimeoutCodes /\ mapped.retryable
            /\ (~StatusIn(err, NamedStatuses) /\ ~TimeoutOrAbort(err)) =>
                  mapped.code \in UnknownCodes /\ ~mapped.retryable /\ FailedAtOnce
            /\ call.state = "running" => mapped.retryable

\* C18 (as stated): every network call of both origins is wrapped in the
\* retry loop: it is invoked at most retries + 1 times, and a retryable
\* failure is reported only after retries + 1 invocations.
C18_EveryCallRetried ==
    /\ call.invocations <= call.retries + 1
    /\ (call.state = "thrown" /\ Val(call.mapped).retryable) =>
          call.invocations = call.retries + 1

-----------------------------------------------------------------------------
(* Properties of the file resolution *)

\* The entry file of the listing is present and has no problem
SkillFileReadable ==
    \E i \in DOMAIN listing.entries :
        /\ listing.entries[i].path = SkillMd
        /\ listing.entries[i].problem = "none"

\* The file limit does not cut the listing
WithinFileLimit == Len(listing.entries) <= listing.maxTotalFiles

\* The file is oversize, of an unsupported type, binary or unreadable
HasProblem(e) ==
    e.problem # "none" \/ e.path.ext \notin ALLOWED_TEXT_EXTENSIONS

\* The file belongs to what the origin resolves: any file of a directory or
\* of an archive; for a tree, the referenced files and those under scripts/
BelongsToSkill(e, origin) ==
    origin = "github" => (e.referenced \/ e.path.dir \in {"scripts", "src"})

InFiles(filePath, res) == \E k \in DOMAIN res.files : res.files[k] = filePath

HasReasonFor(filePath, res) ==
    \E k \in DOMAIN res.unverifiableReasons :
        res.unverifiableReasons[k].path = filePath

\* C19 (as stated): for every origin, a file other than the entry file that
\* is oversize, of a wrong type, binary or unreadable leaves the resolution
\* successful, is absent from files and has an entry in unverifiableReasons.
C19_PerFileProblems ==
    (resolution # Null /\ SkillFileReadable /\ WithinFileLimit) =>
        LET res == Val(resolution) IN
        /\ res.state = "resolved"
        /\ \A i \in DOMAIN listing.entries :
              LET e == listing.entries[i] IN
              (e.path # SkillMd /\ HasProblem(e) /\ BelongsToSkill(e, res.origin)) =>
                  /\ ~InFiles(e.path, res)
                  /\ HasReasonFor(e.path, res)

\* C20 (as stated): every ResolvedSkill handed to the scanner has files
\* non-empty, pairwise distinct paths, and exactly one file whose path is
\* skillFilePath.
C20_ResolvedSkillShape ==
    (resolution # Null /\ Val(resolution).state = "resolved") =>
        LET res == Val(resolution) IN
        /\ res.files # <<>>
        /\ \A i, j \in DOMAIN res.files : i # j => res.files[i] # res.files[j]
        /\ res.skillFilePath # Null
        /\ Cardinality({k \in DOMAIN res.files :
                           res.files[k] = Val(res.skillFilePath)}) = 1

-----------------------------------------------------------------------------
(* Properties of the referenced paths *)

\* The path lies inside the directory
IsInside(filePath, dir) ==
    /\ Len(filePath) > Len(dir)
    /\ SubSeq(filePath, 1, Len(dir)) = dir

\* C21 (as stated): every path extractReferencedPaths returns lies inside the
\* skill's directory and is a known path; a reference that normalizes to a
\* place outside the skill's directory is discarded.
C21_TraversalGuard ==
    referenced # Null =>
        \A p \in Val(referenced) :
            /\ p \in refInput.knownPaths
            /\ IsInside(p, refInput.skillDir)

-----------------------------------------------------------------------------
(* Properties of the scanner *)

ScanDone == scanResult # Null

\* The positions of the findings that a rule left for a file
FindingsFor(res, file, rule) ==
    {j \in DOMAIN res.findings :
        /\ res.findings[j].id = rule.id \o ":" \o file.path
        /\ res.findings[j].file = file.path
        /\ res.findings[j].type = rule.type
        /\ res.findings[j].severity = rule.severity
        /\ res.findings[j].confidence = rule.confidence}

\* The pairs (file position, rule position) whose rule matches the file
MatchingPairs(skill) ==
    {pair \in (DOMAIN skill.files) \X (DOMAIN RULES) :
        ruleMatches(RULES[pair[2]].id, getScannableContent(skill.files[pair[1]]))}

\* The position of the file and of the rule a finding came from
FileIndex(skill, f) == CHOOSE i \in DOMAIN skill.files : skill.files[i].path = f.file
RuleIndex(f) == CHOOSE k \in DOMAIN RULES : f.id = RULES[k].id \o ":" \o f.file

\* One finding per matching pair and no other, ids unique, nothing for a
\* file without scannable content, file order then rule order
FindingsAsDocumented(skill, res) ==
    /\ \A i \in DOMAIN skill.files : \A k \in DOMAIN RULES :
          Cardinality(FindingsFor(res, skill.files[i], RULES[k])) =
              IF <<i, k>> \in MatchingPairs(skill) THEN 1 ELSE 0
    /\ Len(res.findings) = Cardinality(MatchingPairs(skill))
    /\ \A j1, j2 \in DOMAIN res.findings :
          j1 # j2 => res.findings[j1].id # res.findings[j2].id
    /\ \A i \in DOMAIN skill.files :
          getScannableContent(skill.files[i]) = <<>> =>
              \A j \in DOMAIN res.findings : res.findings[j].file # skill.files[i].path
    /\ \A j1, j2 \in DOMAIN res.findings :
          j1 < j2 =>
              LET f1 == res.findings[j1]
                  f2 == res.findings[j2]
              IN  \/ FileIndex(skill, f1) < FileIndex(skill, f2)
                  \/ /\ FileIndex(skill, f1) = FileIndex(skill, f2)
                     /\ RuleIndex(f1) < RuleIndex(f2)

\* C22: scanResolvedSkill leaves exactly one finding, with id ruleId:filePath,
\* for each (file, rule) whose rule matches the file's scannable content and
\* none else; ids are unique; a file with empty scannable content has no
\* finding; findings come in file order, then rule order;
\* hasUnverifiableContent is true iff unverifiableReasons is non-empty; the
\* skill passed in is left as it was.
C22_OneFindingPerMatch ==
    /\ [](ScanDone =>
            /\ FindingsAsDocumented(scanInput, Val(scanResult))
            /\ Val(scanResult).hasUnverifiableContent
                   <=> (scanInput.unverifiableReasons # <<>>)
            /\ Val(scanResult).unverifiableReasons = scanInput.unverifiableReasons)
    /\ [][scanResult' # scanResult => scanInput' = scanInput]_vars

\* Two files with findings, one of them with two, and a Markdown file of
\* the same skill that has content
C22_Witness ==
    /\ ScanDone
    /\ Len(scanInput.files) = 2
    /\ \A i \in DOMAIN scanInput.files : scanInput.files[i].pieces # <<>>
    /\ Len(Val(scanResult).findings) >= 3
    /\ {Val(scanResult).findings[j].file : j \in DOMAIN Val(scanResult).findings}
           = {FilePaths[1], FilePaths[2]}

\* A Markdown file made of prose only: paragraphs, list items, block quotes
ProseOnly(file) ==
    /\ IsMarkdownPath(file.path)
    /\ \A i \in DOMAIN file.pieces :
          file.pieces[i].construct \in {"paragraph", "listItem", "blockQuote"}

\* C23 (as stated): a Markdown file whose only content is prose, list items
\* and block quotes that mention a command included, yields no finding.
C23_ProseNeverMatched ==
    ScanDone =>
        \A i \in DOMAIN scanInput.files :
            ProseOnly(scanInput.files[i]) =>
                \A j \in DOMAIN Val(scanResult).findings :
                    Val(scanResult).findings[j].file # scanInput.files[i].path

-----------------------------------------------------------------------------
(* Properties of the policy checks *)

PolicyOf == Val(policyRun.policy)

\* The policy blocks the source's owner, or has an allow list without it
SourceRefused ==
    /\ policyRun.policy # Null
    /\ \/ policyRun.source.owner \in PolicyOf.blockedOwners
       \/ /\ PolicyOf.allowedOwners # {}
          /\ policyRun.source.owner \notin PolicyOf.allowedOwners

\* An effective flag that the policy forbids
FlagRefused ==
    /\ policyRun.policy # Null
    /\ \/ effectiveFlag(policyRun.forceOrigin) /\ ~PolicyOf.allowForce
       \/ effectiveFlag(policyRun.allowUnverifiableOrigin)
              /\ ~PolicyOf.allowUnverifiableOverride

PolicyRunOver == policyRun.pc \in {"thrown", "resolving"}

\* C24 (as stated): when the source is blocked or not allow-listed, or an
\* effective flag is forbidden by the policy, the command fails with
\* POLICY_VIOLATION and no resolution or clone is started.
C24_PolicyBeforeResolution ==
    (SourceRefused \/ FlagRefused) =>
        /\ ~policyRun.started
        /\ PolicyRunOver => policyRun.error = Some("POLICY_VIOLATION")

-----------------------------------------------------------------------------
(* Properties of the scan-only commands *)

ScanOnly == command \in {"scan-local", "scan-clawhub"}

ScanReturned == ScanOnly /\ pc = "done" /\ exitCode # Null

\* The level the command reports: the scored level, aligned with the
\* registry's moderation for scan-clawhub
ReportedLevel ==
    IF command = "scan-clawhub"
    THEN alignWithClawHubModeration(decisionOf(Val(resolved), options),
                                    Val(resolved).clawhubModeration).level
    ELSE decisionOf(Val(resolved), options).level

\* C25: runScanLocalCommand and runScanClawHubCommand return 20 exactly when
\* the final level (after moderation alignment for the registry command) is
\* UNSAFE, CRITICAL or UNVERIFIABLE, and 0 for SAFE and WARNING; they never
\* start the installer.
C25_ScanExitCodes ==
    /\ ScanOnly => installerCalls = 0
    /\ ScanReturned =>
          /\ Val(decision).level = ReportedLevel
          /\ Val(exitCode) \in {0, 20}
          /\ Val(exitCode) = 20
                <=> ReportedLevel \in {"UNSAFE", "CRITICAL", "UNVERIFIABLE"}
          /\ Val(exitCode) = 0 <=> ReportedLevel \in {"SAFE", "WARNING"}

\* scan-clawhub returned 20 for a skill with unverifiable content
C25_Witness ==
    /\ ScanReturned
    /\ command = "scan-clawhub"
    /\ Val(decision).level = "UNVERIFIABLE"
    /\ Val(exitCode) = 20

\* The entry of the listing with the given path
EntryAt(filePath) ==
    listing.entries[CHOOSE i \in DOMAIN listing.entries :
                        listing.entries[i].path = filePath]

\* More candidates than maxTotalFiles: for a tree the list to fetch; for a
\* directory or an archive the files that would be kept without the limit
CandidatesExceedLimit(origin) ==
    IF origin = "github"
    THEN Len(githubFilesToFetch(listing.entries, listing.maxAuxFiles))
             > listing.maxTotalFiles
    ELSE Cardinality({i \in DOMAIN listing.entries :
                         /\ isScannableTextFile(listing.entries[i].path)
                         /\ listing.entries[i].problem \in
                                (IF origin = "archive" THEN {"none"}
                                 ELSE {"none", "binary"})})
             > listing.maxTotalFiles

\* C26 (as stated): a resolved skill has at most maxTotalFiles files, no file
\* longer than maxFileSizeBytes (also when the tree entry reports no size),
\* and a reason whenever the candidates were cut at maxTotalFiles.
C26_SafetyEnvelope ==
    (resolution # Null /\ Val(resolution).state = "resolved") =>
        LET res == Val(resolution) IN
        /\ Len(res.files) <= listing.maxTotalFiles
        /\ \A k \in DOMAIN res.files : ~isOversize(EntryAt(res.files[k]))
        /\ CandidatesExceedLimit(res.origin) =>
              \E k \in DOMAIN res.unverifiableReasons :
                  res.unverifiableReasons[k].kind = "truncated"

\* A text-like file under the skill directory's scripts/ or src/
IsAuxTextFile(e) ==
    e.path.dir \in {"scripts", "src"} /\ isLikelyTextFile(e.path)

\* C27 (as stated): after resolveSkillFromGitHub every text-like file under
\* scripts/ or src/ is in files, or the result carries a reason; the files
\* dropped by maxAuxFiles do not leave unverifiableReasons empty.
C27_AuxCoverage ==
    (/\ resolution # Null
     /\ Val(resolution).origin = "github"
     /\ Val(resolution).state = "resolved") =>
        \A i \in DOMAIN listing.entries :
            IsAuxTextFile(listing.entries[i]) =>
                \/ InFiles(listing.entries[i].path, Val(resolution))
                \/ Val(resolution).unverifiableReasons # <<>>


(* Properties of the registry lookup *)

Requests == lookup.requests

RequestsOf(kind) == SelectSeq(Requests, LAMBDA q : q.kind = kind)

\* The (repository, skill name) pairs in the order of the two loops
RECURSIVE PairsFrom(_, _, _, _)
PairsFrom(repos, names, r, s) ==
    IF r > Len(repos) THEN <<>>
    ELSE IF s > Len(names) THEN PairsFrom(repos, names, r + 1, 1)
    ELSE <<<<repos[r], names[s]>>>> \o PairsFrom(repos, names, r, s + 1)

LookupOver == lookup.pc \in {"returned", "thrown"}

ApiInOrder ==
    LET api == RequestsOf("api") IN
    \A k \in DOMAIN api :
        IF k = 1 THEN api[k].target = <<1, 1>>
        ELSE LET before == api[k - 1] IN
             /\ before.outcome # "metadata"
             /\ \/ /\ api[k].target = <<before.target[1], before.target[2] + 1>>
                   /\ before.outcome = "CLAWHUB_NOT_FOUND"
                \/ /\ api[k].target = <<before.target[1] + 1, 1>>
                   /\ \/ before.outcome # "CLAWHUB_NOT_FOUND"
                      \/ before.target[2] = Len(ApiUrls)

PageOnlyWithoutMetadata ==
    \A k \in DOMAIN Requests :
        Requests[k].kind = "page" =>
            \A j \in 1..(k - 1) :
                Requests[j].kind = "api" /\ Requests[j].outcome # "metadata"

GitHubInOrder ==
    LET github == RequestsOf("github")
        pairs == PairsFrom(lookup.repos, lookup.skillCandidates, 1, 1)
    IN  /\ Len(github) <= Len(pairs)
        /\ \A k \in DOMAIN github :
              /\ github[k].target = pairs[k]
              /\ k < Len(github) => github[k].outcome = "thrown"

FirstSuccessReturned ==
    \A k \in DOMAIN Requests :
        Requests[k].kind = "github" /\ Requests[k].outcome = "resolved" =>
            /\ k = Len(Requests)
            /\ lookup.pc = "returned"
            /\ lookup.result = Some([origin |-> "github", target |-> Requests[k].target])

ArchiveOnlyAfterGitHub ==
    \A k \in DOMAIN Requests :
        Requests[k].kind = "archive" =>
            /\ k = Len(Requests)
            /\ \A j \in 1..(k - 1) : Requests[j].outcome # "resolved"
            /\ Len(RequestsOf("github")) =
                 Len(PairsFrom(lookup.repos, lookup.skillCandidates, 1, 1))

SkillOnlyWhenYielded ==
    /\ lookup.result # Null =>
          /\ lookup.pc = "returned"
          /\ Requests # <<>>
          /\ Requests[Len(Requests)].kind \in {"github", "archive"}
          /\ Requests[Len(Requests)].outcome = "resolved"
    /\ lookup.pc = "returned" => lookup.result # Null /\ lookup.error = Null
    /\ lookup.pc = "thrown" => lookup.result = Null /\ lookup.error # Null
    /\ ~LookupOver => ENABLED NextLookup

\* C28: one call of resolveSkillFromClawHub sends its requests in a fixed
\* order. The API URLs of a candidate are tried in sequence, the next URL only
\* after a not-found answer, the next candidate after any other error or after
\* the last URL; the page is fetched only when no API request returned
\* metadata; GitHub is tried pair by pair in the order of the two loops, each
\* attempt after a failed one, and a success is the last request and the
\* result; the archive is requested only after every pair failed; a skill is
\* returned only when the last request resolved one, and every other call
\* that is over has thrown an error.
C28_FallbackOrder ==
    /\ ApiInOrder
    /\ PageOnlyWithoutMetadata
    /\ GitHubInOrder
    /\ FirstSuccessReturned
    /\ ArchiveOnlyAfterGitHub
    /\ SkillOnlyWhenYielded

\* The documented case: the first URL answers 404, the second returns
\* metadata, the first pair fails on GitHub and the second resolves
C28_Witness ==
    /\ lookup.pc = "returned"
    /\ Len(Requests) = 4
    /\ Requests[1].kind = "api" /\ Requests[1].outcome = "CLAWHUB_NOT_FOUND"
    /\ Requests[2].kind = "api" /\ Requests[2].outcome = "metadata"
    /\ Requests[3].kind = "github" /\ Requests[3].outcome = "thrown"
    /\ Requests[4].kind = "github" /\ Requests[4].outcome = "resolved"

(* Adding a finding *)

\* The list scored without its last finding, under the same options
ResultBefore ==
    calculateRiskScore(SubSeq(findings, 1, Len(findings) - 1), scoreOptions)

NoLessSevere(after, before) ==
    IF before = "UNVERIFIABLE" \/ after = "UNVERIFIABLE" THEN after = before
    ELSE LevelRank(after) >= LevelRank(before)

\* C29: for every scored list with a last finding f and every options, the
\* result for the list is no lower than the result calculateRiskScore gives,
\* under the same options, for the list without f: both riskScores are null
\* or the list's is greater or equal, and its level is at least as severe.
C29_EvidenceNeverLowers ==
    Scored /\ findings # <<>> =>
        LET before == ResultBefore IN
        /\ IsNull(Result.riskScore) = IsNull(before.riskScore)
        /\ ~IsNull(Result.riskScore) =>
              Val(Result.riskScore) >= Val(before.riskScore)
        /\ NoLessSevere(Result.level, before.level)

\* A MEDIUM finding scored with credits, then a HIGH finding added: the
\* credits are withdrawn and both the score and the level rise
C29_Witness ==
    /\ Scored
    /\ Len(findings) = 3
    /\ ~scoreOptions.hasUnverifiableContent
    /\ scoreOptions.trustCredits = 10
    /\ findings[3].severity = "HIGH"
    /\ ResultBefore.breakdown.trustCredits = 10 * Scale
    /\ Result.breakdown.trustCredits = 0
    /\ Val(Result.riskScore) > Val(ResultBefore.riskScore)
    /\ LevelRank(Result.level) > LevelRank(ResultBefore.level)

(* Properties of the installer hand-over *)

\* C30: whatever happens to the default branch of the remote between the
\* resolution or clone and the installer's run, the revision the installer
\* installs is the revision that was scanned.
C30_InstallsScannedRevision ==
    install.installed # Null => install.installed = install.scanned
=============================================================================
